---- MODULE Spec2Model ----
(***************************************************************************)
(* Citation detection engine and probe prompt builder of aeo-engine        *)
(* (src/lib/citation/detector.ts, src/lib/citation/prompt-builder.ts).     *)
(*                                                                         *)
(* For the detector a string is a sequence of one-character strings.  The  *)
(* functions are operators computed the way the code computes them; a      *)
(* specification draws the arguments of one call from a bounded set of     *)
(* texts (Init) and its action performs the call.  SpecSession is a caller *)
(* that makes several calls one after the other.                           *)
(*                                                                         *)
(* Numbers: a confidence is kept in tenths (1.0 -> 10, 0.9 -> 9, 0.7 -> 7, *)
(* 0.5 -> 5, 0 -> 0); a null position is NoPosition; a null citationType   *)
(* or sentiment is NULL.  Texts are ASCII.                                 *)
(***************************************************************************)
EXTENDS Integers, Sequences, FiniteSets, TLC

VARIABLES
    pc,           \* "call": arguments bound, body not run; "returned"; "threw"
    fn,           \* the function being called
    response,     \* detectCitation: response; detectSentiment: text
    brandName,    \* detectCitation: brandName
    brandDomain,  \* detectCitation: brandDomain
    competitors,  \* detectCitation: competitors (sequence of [name, domain])
    matchIndex,   \* detectSentiment: matchIndex (0-based, as in the code)
    matchLength,  \* detectSentiment: matchLength
    query,        \* buildProbePrompt: query
    category,     \* buildProbePrompt: category
    variables,    \* buildProbePrompt: variables ([given, entries])
    result,       \* the value returned (the initial value until the return)
    lastIndex,    \* lastIndex of the numberedListRegex object of the last
                  \* detectPosition call, as that call left it
    calls,        \* the calls the caller has completed, in order
    now,          \* Date.now(), in milliseconds
    minuteWindows,  \* rate limiter: provider -> usage of the minute window
    dailyUsage,   \* rate limiter: provider -> cost of the day
    cacheEntry,   \* the table prisma.cacheEntry: key -> entry
    citationRun,  \* the table prisma.citationRun: the status of the run
    citationResult, \* the table prisma.citationResult, in order of creation
    proc          \* the concurrent callers: where each one is, its locals

\* the arguments of the call in progress
args == <<fn, response, brandName, brandDomain, competitors,
          matchIndex, matchLength, query, category, variables>>

\* the state outside the citation library: clock, rate limiter, database
services == <<now, minuteWindows, dailyUsage, cacheEntry,
              citationRun, citationResult, proc>>

vars == <<pc, args, result, lastIndex, calls, services>>

NULL == "null"
NoPosition == -1

-----------------------------------------------------------------------------
(* Characters and the String methods the detector uses.                    *)

UpperCase == <<"A","B","C","D","E","F","G","H","I","J","K","L","M",
               "N","O","P","Q","R","S","T","U","V","W","X","Y","Z">>
LowerCase == <<"a","b","c","d","e","f","g","h","i","j","k","l","m",
               "n","o","p","q","r","s","t","u","v","w","x","y","z">>
Digits == <<"0","1","2","3","4","5","6","7","8","9">>

UpperSet == {UpperCase[i] : i \in 1..26}
LowerSet == {LowerCase[i] : i \in 1..26}
DigitSet == {Digits[i] : i \in 1..10}

LowerOf == [c \in UpperSet |-> LowerCase[CHOOSE i \in 1..26 : UpperCase[i] = c]]

\* String.prototype.toLowerCase, one character
ToLowerChar(c) == IF c \in UpperSet THEN LowerOf[c] ELSE c

\* String.prototype.toLowerCase
ToLower(s) == [i \in 1..Len(s) |-> ToLowerChar(s[i])]

\* \w of a RegExp
IsWordChar(c) == c \in UpperSet \cup LowerSet \cup DigitSet \cup {"_"}

\* \s of a RegExp
IsSpace(c) == c \in {" ", "\t", "\n", "\r"}

\* the line terminators: what . does not match and what ^ (flag m) follows
IsLineTerminator(c) == c \in {"\n", "\r"}

\* parseInt of one decimal digit
DigitValue(c) == (CHOOSE i \in 1..10 : Digits[i] = c) - 1

\* the least element of a non-empty set of integers
LeastOf(S) == CHOOSE x \in S : \A y \in S : x <= y

Min(a, b) == IF a < b THEN a ELSE b
Max(a, b) == IF a > b THEN a ELSE b

\* String.prototype.slice(start, end) for 0 <= start, end <= length (0-based,
\* end exclusive)
Slice(s, start, end) == SubSeq(s, start + 1, end)

\* does needle occur in hay at 0-based index i
OccursAt(hay, needle, i) ==
    /\ i + Len(needle) <= Len(hay)
    /\ \A k \in 1..Len(needle) : hay[i + k] = needle[k]

\* String.prototype.indexOf: the least 0-based index of needle, -1 if none
IndexOf(hay, needle) ==
    LET hits == {i \in 0..(Len(hay) - Len(needle)) : OccursAt(hay, needle, i)}
    IN  IF hits = {} THEN -1 ELSE LeastOf(hits)

\* String.prototype.includes
Includes(hay, needle) ==
    \E i \in 0..(Len(hay) - Len(needle)) : OccursAt(hay, needle, i)

-----------------------------------------------------------------------------
(* Keyword tables.                                                         *)

POSITIVE_KEYWORDS ==
    << <<"b","e","s","t">>,
       <<"r","e","c","o","m","m","e","n","d">>,
       <<"t","o","p">>,
       <<"e","x","c","e","l","l","e","n","t">>,
       <<"o","u","t","s","t","a","n","d","i","n","g">>,
       <<"l","e","a","d","i","n","g">>,
       <<"s","u","p","e","r","i","o","r">>,
       <<"g","r","e","a","t">>,
       <<"f","a","n","t","a","s","t","i","c">>,
       <<"h","i","g","h","l","y"," ","r","a","t","e","d">>,
       <<"f","i","r","s","t"," ","c","h","o","i","c","e">>,
       <<"p","r","e","f","e","r","r","e","d">>,
       <<"t","r","u","s","t","e","d">>,
       <<"r","e","l","i","a","b","l","e">>,
       <<"i","m","p","r","e","s","s","i","v","e">> >>

NEGATIVE_KEYWORDS ==
    << <<"a","v","o","i","d">>,
       <<"i","s","s","u","e","s">>,
       <<"p","r","o","b","l","e","m","s">>,
       <<"w","o","r","s","t">>,
       <<"p","o","o","r">>,
       <<"l","a","c","k","i","n","g">>,
       <<"i","n","f","e","r","i","o","r">>,
       <<"d","i","s","a","p","p","o","i","n","t","i","n","g">>,
       <<"u","n","r","e","l","i","a","b","l","e">>,
       <<"o","v","e","r","p","r","i","c","e","d">>,
       <<"o","u","t","d","a","t","e","d">>,
       <<"d","i","f","f","i","c","u","l","t">>,
       <<"f","r","u","s","t","r","a","t","i","n","g">>,
       <<"l","i","m","i","t","e","d">>,
       <<"m","e","d","i","o","c","r","e">> >>

COMPARISON_KEYWORDS ==
    << <<"c","o","m","p","a","r","e">>,
       <<"v","s">>,
       <<"v","e","r","s","u","s">>,
       <<"c","o","m","p","a","r","e","d"," ","t","o">> >>

RECOMMENDATION_KEYWORDS ==
    << <<"r","e","c","o","m","m","e","n","d">>,
       <<"s","u","g","g","e","s","t">>,
       <<"t","r","y">> >>

-----------------------------------------------------------------------------
(* Regular expressions.  escapeRegex is the repository's; RegExp, exec and *)
(* test are the language's, modelled for the patterns the detector builds: *)
(* characters, \-escapes, the assertions \b ^ $, the wildcard ., the       *)
(* quantifiers * + ? on one atom, and | between alternatives.  A capture   *)
(* group is transparent (the detector reads no capture of these patterns); *)
(* an unbalanced ( or ), an unterminated [, a quantifier with nothing to   *)
(* repeat and a trailing \ make the constructor throw a SyntaxError.       *)

\* the characters of the class [.*+?^${}()|[\]\\]
RegexMeta == {".", "*", "+", "?", "^", "$", "{", "}", "(", ")", "|", "[", "]", "\\"}

RECURSIVE EscapeFrom(_, _)
EscapeFrom(str, i) ==
    IF i > Len(str) THEN <<>>
    ELSE (IF str[i] \in RegexMeta THEN <<"\\", str[i]>> ELSE <<str[i]>>)
         \o EscapeFrom(str, i + 1)

\* a plausible slip: the replacement leaves the text as it is
escapeRegexIdentity(str) == str

\* str.replace(/[.*+?^${}()|[\]\\]/g, "\\$&")
escapeRegex(str) == EscapeFrom(str, 1)

LitAtom(c)  == [kind |-> "char",  ch |-> c,  q |-> "1"]
AnyAtom     == [kind |-> "any",   ch |-> "", q |-> "1"]
WordBAtom   == [kind |-> "wordb", ch |-> "", q |-> "1"]
BolAtom     == [kind |-> "bol",   ch |-> "", q |-> "1"]
EolAtom     == [kind |-> "eol",   ch |-> "", q |-> "1"]

SyntaxError == [err |-> TRUE, alts |-> <<>>]

IsAssertion(a) == a.kind \in {"wordb", "bol", "eol"}

RECURSIVE ParseFrom(_, _, _, _, _)
ParseFrom(p, i, alts, cur, depth) ==
    IF i > Len(p)
    THEN IF depth > 0 THEN SyntaxError
         ELSE [err |-> FALSE, alts |-> Append(alts, cur)]
    ELSE LET c == p[i] IN
         CASE c = "\\" ->
                IF i = Len(p) THEN SyntaxError
                ELSE ParseFrom(p, i + 2, alts,
                               Append(cur, IF p[i + 1] = "b" THEN WordBAtom
                                           ELSE LitAtom(p[i + 1])),
                               depth)
           [] c = "|" -> ParseFrom(p, i + 1, Append(alts, cur), <<>>, depth)
           [] c = "." -> ParseFrom(p, i + 1, alts, Append(cur, AnyAtom), depth)
           [] c = "^" -> ParseFrom(p, i + 1, alts, Append(cur, BolAtom), depth)
           [] c = "$" -> ParseFrom(p, i + 1, alts, Append(cur, EolAtom), depth)
           [] c \in {"*", "+", "?"} ->
                IF \/ cur = <<>>
                   \/ IsAssertion(cur[Len(cur)])
                   \/ (cur[Len(cur)].q # "1" /\ c # "?")
                THEN SyntaxError
                ELSE IF cur[Len(cur)].q # "1"
                     THEN ParseFrom(p, i + 1, alts, cur, depth)   \* lazy modifier
                     ELSE ParseFrom(p, i + 1, alts,
                                    [cur EXCEPT ![Len(cur)].q = c], depth)
           [] c = "(" -> ParseFrom(p, i + 1, alts, cur, depth + 1)
           [] c = ")" -> IF depth = 0 THEN SyntaxError
                         ELSE ParseFrom(p, i + 1, alts, cur, depth - 1)
           [] c = "[" -> SyntaxError
           [] OTHER   -> ParseFrom(p, i + 1, alts, Append(cur, LitAtom(c)), depth)

\* new RegExp(pattern, "i")
RegExp(pattern) == ParseFrom(pattern, 1, <<>>, <<>>, 0)

\* \b at the 1-based position pos (between text[pos-1] and text[pos])
WordBoundaryAt(text, pos) ==
    LET before == pos > 1 /\ IsWordChar(text[pos - 1])
        after  == pos <= Len(text) /\ IsWordChar(text[pos])
    IN  before # after

AtomMatches(a, text, pos) ==
    /\ pos <= Len(text)
    /\ IF a.kind = "any" THEN ~IsLineTerminator(text[pos])
       ELSE ToLowerChar(text[pos]) = ToLowerChar(a.ch)

RECURSIVE MatchHere(_, _, _, _)
MatchHere(atoms, k, text, pos) ==
    IF k > Len(atoms) THEN TRUE
    ELSE LET a == atoms[k] IN
         CASE a.kind = "wordb" ->
                WordBoundaryAt(text, pos) /\ MatchHere(atoms, k + 1, text, pos)
           [] a.kind = "bol" -> pos = 1 /\ MatchHere(atoms, k + 1, text, pos)
           [] a.kind = "eol" ->
                pos = Len(text) + 1 /\ MatchHere(atoms, k + 1, text, pos)
           [] OTHER ->
                CASE a.q = "1" ->
                       AtomMatches(a, text, pos)
                       /\ MatchHere(atoms, k + 1, text, pos + 1)
                  [] a.q = "?" ->
                       \/ AtomMatches(a, text, pos)
                          /\ MatchHere(atoms, k + 1, text, pos + 1)
                       \/ MatchHere(atoms, k + 1, text, pos)
                  [] a.q = "*" ->
                       \/ AtomMatches(a, text, pos)
                          /\ MatchHere(atoms, k, text, pos + 1)
                       \/ MatchHere(atoms, k + 1, text, pos)
                  [] a.q = "+" ->
                       AtomMatches(a, text, pos)
                       /\ \/ MatchHere(atoms, k, text, pos + 1)
                          \/ MatchHere(atoms, k + 1, text, pos + 1)

\* does re match text starting at the 0-based index i
MatchesAt(re, text, i) ==
    \E n \in 1..Len(re.alts) : MatchHere(re.alts[n], 1, text, i + 1)

\* RegExp.prototype.exec(text).index: 0-based index of the leftmost match,
\* -1 for a null result
ExecIndex(re, text) ==
    LET hits == {i \in 0..Len(text) : MatchesAt(re, text, i)}
    IN  IF hits = {} THEN -1 ELSE LeastOf(hits)

\* RegExp.prototype.test(text)
Test(re, text) == \E i \in 0..Len(text) : MatchesAt(re, text, i)

-----------------------------------------------------------------------------
(* Helpers of the detector.                                                *)

SentimentWindow == 120
TypeWindow == 200

\* a plausible slip: the window is taken from the match start only
extractSurroundingTextNoLength(text, mIndex, mLength, windowSize) ==
    ToLower(Slice(text, Max(0, mIndex - windowSize),
                  Min(Len(text), mIndex + windowSize)))

extractSurroundingText(text, mIndex, mLength, windowSize) ==
    LET start == Max(0, mIndex - windowSize)
        end   == Min(Len(text), mIndex + mLength + windowSize)
    IN  ToLower(Slice(text, start, end))

\* a plausible slip: every occurrence of a keyword is counted
KeywordScorePerOccurrence(surrounding, keywords) ==
    Cardinality({<<k, j>> \in (1..Len(keywords)) \X (0..Len(surrounding)) :
                    OccursAt(surrounding, keywords[k], j)})

\* the value a for-loop over the keywords leaves in its counter
KeywordScore(surrounding, keywords) ==
    Cardinality({k \in 1..Len(keywords) : Includes(surrounding, keywords[k])})

\* a plausible slip: >= in the first comparison, so that a tie is positive
SentimentOfScoresTieUp(positiveScore, negativeScore) ==
    IF positiveScore >= negativeScore THEN "positive"
    ELSE IF negativeScore > positiveScore THEN "negative"
    ELSE "neutral"

SentimentOfScores(positiveScore, negativeScore) ==
    IF positiveScore > negativeScore THEN "positive"
    ELSE IF negativeScore > positiveScore THEN "negative"
    ELSE "neutral"

detectSentiment(text, mIndex, mLength) ==
    LET surrounding   == extractSurroundingText(text, mIndex, mLength,
                                                SentimentWindow)
        positiveScore == KeywordScore(surrounding, POSITIVE_KEYWORDS)
        negativeScore == KeywordScore(surrounding, NEGATIVE_KEYWORDS)
    IN  SentimentOfScores(positiveScore, negativeScore)

\* the characters of the class [.):\-]
ListSeparators == {".", ")", ":", "-"}

AtLineStart(text, q) == q = 1 \/ IsLineTerminator(text[q - 1])

\* the greatest e >= from - 1 such that text[from..e] all satisfy the class
RunEnd(text, from, class) ==
    LET stops == {j \in from..Len(text) : text[j] \notin class}
    IN  IF stops = {} THEN Max(Len(text), from - 1) ELSE LeastOf(stops) - 1

BlankSet == {" ", "\t"}
SpaceSet == {" ", "\t", "\n", "\r"}

\* the greatest e >= from - 1 such that text[from..e] holds no line terminator
LineEnd(text, from) ==
    LET stops == {j \in from..Len(text) : IsLineTerminator(text[j])}
    IN  IF stops = {} THEN Max(Len(text), from - 1) ELSE LeastOf(stops) - 1

\* one attempt of /^[ \t]*(\d{1,2})[.):\-]\s+(.+)/gm at the line start s
\* (1-based): greedy, with the backtracking of \d{1,2} and of \s+
ListItemAt(text, s) ==
    LET n  == Len(text)
        d1 == RunEnd(text, s, BlankSet) + 1
        nd == IF d1 + 1 <= n /\ text[d1 + 1] \in DigitSet THEN 2 ELSE 1
        sp == d1 + nd
        w  == sp + 1
        e  == RunEnd(text, w, SpaceSet)
        starts == {c \in (w + 1)..(e + 1) :
                      c <= n /\ ~IsLineTerminator(text[c])}
        c0 == CHOOSE c \in starts : \A c2 \in starts : c2 <= c
        ok == /\ d1 <= n /\ text[d1] \in DigitSet
              /\ sp <= n /\ text[sp] \in ListSeparators
              /\ e >= w
              /\ starts # {}
    IN  IF ~ok THEN [ok |-> FALSE, marker |-> 0, content |-> <<>>, next |-> s]
        ELSE [ok      |-> TRUE,
              marker  |-> IF nd = 2
                          THEN 10 * DigitValue(text[d1]) + DigitValue(text[d1 + 1])
                          ELSE DigitValue(text[d1]),
              content |-> SubSeq(text, c0, LineEnd(text, c0)),
              next    |-> LineEnd(text, c0) + 1]

\* the while loop over numberedListRegex.exec, resumed at the 1-based q
\* (lastIndex + 1): the next match is the one at the least line start
RECURSIVE PositionFrom(_, _, _)
PositionFrom(text, q, brandPattern) ==
    LET matches == {s \in q..Len(text) :
                       AtLineStart(text, s) /\ ListItemAt(text, s).ok}
        item    == ListItemAt(text, LeastOf(matches))
    IN  IF matches = {} THEN NoPosition
        ELSE IF Test(brandPattern, item.content) THEN item.marker
        ELSE PositionFrom(text, item.next, brandPattern)

\* numberedListRegex.lastIndex when the loop is left: the end of the match
\* whose content holds the brand, 0 after exec has returned null
RECURSIVE LastIndexFrom(_, _, _)
LastIndexFrom(text, q, brandPattern) ==
    LET matches == {s \in q..Len(text) :
                       AtLineStart(text, s) /\ ListItemAt(text, s).ok}
        item    == ListItemAt(text, LeastOf(matches))
    IN  IF matches = {} THEN 0
        ELSE IF Test(brandPattern, item.content) THEN item.next - 1
        ELSE LastIndexFrom(text, item.next, brandPattern)

\* a plausible slip: numberedListRegex hoisted to module level, so that a
\* call finds the lastIndex the call before has left
SharedRegexLastIndex(left) == left

\* const numberedListRegex = /.../gm inside detectPosition: each call makes a
\* new RegExp object, whose lastIndex is 0 whatever an earlier call has left
NewRegexLastIndex(left) == 0

detectPosition(resp, brandPattern) ==
    PositionFrom(resp, NewRegexLastIndex(lastIndex) + 1, brandPattern)

\* a plausible slip: one push for the name and one more for the domain
RECURSIVE CompetitorsFromBoth(_, _, _)
CompetitorsFromBoth(lowerResponse, comps, i) ==
    IF i > Len(comps) THEN <<>>
    ELSE LET nameFound   == Includes(lowerResponse, ToLower(comps[i].name))
             domainFound == Includes(lowerResponse, ToLower(comps[i].domain))
         IN  (IF nameFound THEN <<comps[i].name>> ELSE <<>>)
             \o (IF domainFound THEN <<comps[i].name>> ELSE <<>>)
             \o CompetitorsFromBoth(lowerResponse, comps, i + 1)

\* for (const competitor of competitors) ... mentioned.push(competitor.name)
RECURSIVE CompetitorsFrom(_, _, _)
CompetitorsFrom(lowerResponse, comps, i) ==
    IF i > Len(comps) THEN <<>>
    ELSE LET nameFound   == Includes(lowerResponse, ToLower(comps[i].name))
             domainFound == Includes(lowerResponse, ToLower(comps[i].domain))
         IN  (IF nameFound \/ domainFound THEN <<comps[i].name>> ELSE <<>>)
             \o CompetitorsFrom(lowerResponse, comps, i + 1)

Reverse(s) == [i \in 1..Len(s) |-> s[Len(s) + 1 - i]]

\* a plausible slip: mentioned.unshift in place of mentioned.push
detectCompetitorsUnshift(resp, comps) ==
    Reverse(CompetitorsFrom(ToLower(resp), comps, 1))

\* a plausible slip: the response is searched as written, not lowercased
detectCompetitorsCaseSensitive(resp, comps) == CompetitorsFrom(resp, comps, 1)

detectCompetitors(resp, comps) == CompetitorsFrom(ToLower(resp), comps, 1)

-----------------------------------------------------------------------------
(* detectCitation.                                                         *)

\* the characters [^\s)<>] excludes
UrlStop == SpaceSet \cup {")", "<", ">"}

HttpScheme  == <<"h","t","t","p",":","/","/">>
HttpsScheme == <<"h","t","t","p","s",":","/","/">>

\* the greatest e >= from - 1 such that text[from..e] holds no excluded character
UrlBodyEnd(text, from) ==
    LET stops == {j \in from..Len(text) : text[j] \in UrlStop}
    IN  IF stops = {} THEN Max(Len(text), from - 1) ELSE LeastOf(stops) - 1

\* one attempt of /https?:\/\/[^\s)<>]+/gi at the 1-based position i: the
\* position after the match, 0 if there is none
UrlEndAt(text, lowerText, i) ==
    LET scheme == IF OccursAt(lowerText, HttpsScheme, i - 1) THEN 8
                  ELSE IF OccursAt(lowerText, HttpScheme, i - 1) THEN 7
                  ELSE 0
        body   == i + scheme
    IN  IF scheme = 0 \/ body > Len(text) \/ text[body] \in UrlStop THEN 0
        ELSE UrlBodyEnd(text, body) + 1

\* response.match(urlRegex) ?? [], resumed at the 1-based position i
RECURSIVE UrlsFrom(_, _, _)
UrlsFrom(text, lowerText, i) ==
    LET matches == {s \in i..Len(text) : UrlEndAt(text, lowerText, s) # 0}
        s0      == LeastOf(matches)
        e       == UrlEndAt(text, lowerText, s0)
    IN  IF matches = {} THEN <<>>
        ELSE <<SubSeq(text, s0, e - 1)>> \o UrlsFrom(text, lowerText, e)

MatchUrls(resp) == UrlsFrom(resp, ToLower(resp), 1)

InitialResult ==
    [cited                |-> FALSE,
     citationType         |-> NULL,
     sentiment            |-> NULL,
     position             |-> NoPosition,
     competitorsMentioned |-> <<>>,
     confidence           |-> 0]

\* a plausible slip: a domain-only score outside the documented scale
LayerConfidenceOffScale(layer) ==
    CASE layer = "url"     -> 10
      [] layer = "exact"   -> 9
      [] layer = "partial" -> 7
      [] layer = "domain"  -> 3

\* result.confidence as each layer sets it, in tenths
LayerConfidence(layer) ==
    CASE layer = "url"     -> 10
      [] layer = "exact"   -> 9
      [] layer = "partial" -> 7
      [] layer = "domain"  -> 5

\* the if / else if / else over the window of the exact name match
CitationTypeOf(surrounding) ==
    IF \E k \in 1..Len(COMPARISON_KEYWORDS) :
           Includes(surrounding, COMPARISON_KEYWORDS[k])
    THEN "comparison"
    ELSE IF \E k \in 1..Len(RECOMMENDATION_KEYWORDS) :
                Includes(surrounding, RECOMMENDATION_KEYWORDS[k])
         THEN "recommendation"
         ELSE "direct-mention"

\* the pattern `${escapeRegex(brandName)}|${escapeRegex(brandDomain)}`
BrandPatternSource(name, domain) ==
    escapeRegex(name) \o <<"|">> \o escapeRegex(domain)

\* a plausible slip: the word boundaries are left out of the pattern
ExactNameSourceUnbounded(name) == escapeRegex(name)

\* the pattern `\\b${escapeRegex(brandName)}\\b`
ExactNameSource(name) ==
    <<"\\", "b">> \o escapeRegex(name) \o <<"\\", "b">>

\* a plausible slip: the URL is compared without being lowercased
UrlMatchCaseSensitive(urls, lowerBrandDomain) ==
    \E u \in 1..Len(urls) : Includes(urls[u], lowerBrandDomain)

\* urls.some((url) => url.toLowerCase().includes(lowerBrandDomain))
UrlMatch(urls, lowerBrandDomain) ==
    \E u \in 1..Len(urls) : Includes(ToLower(urls[u]), lowerBrandDomain)

\* a plausible slip: the index of the URL form of the domain
UrlIndexWithScheme(lowerResponse, lowerBrandDomain) ==
    IndexOf(lowerResponse, <<"h","t","t","p","s",":","/","/">> \o lowerBrandDomain)

\* lowerResponse.indexOf(lowerBrandDomain) of the URL layer
UrlIndex(lowerResponse, lowerBrandDomain) ==
    IndexOf(lowerResponse, lowerBrandDomain)

Threw == [threw |-> TRUE, value |-> InitialResult]
Returned(v) == [threw |-> FALSE, value |-> v]

detectCitation(resp, name, domain, comps) ==
    LET lowerResponse    == ToLower(resp)
        lowerBrandName   == ToLower(name)
        lowerBrandDomain == ToLower(domain)
        brandPattern     == RegExp(BrandPatternSource(name, domain))
        urls             == MatchUrls(resp)
        urlMatch         == UrlMatch(urls, lowerBrandDomain)
        urlIndex         == UrlIndex(lowerResponse, lowerBrandDomain)
        exactNameRegex   == RegExp(ExactNameSource(name))
        exactIndex       == ExecIndex(exactNameRegex, resp)
        partialNameIndex == IndexOf(lowerResponse, lowerBrandName)
        domainIndex      == IndexOf(lowerResponse, lowerBrandDomain)
        found(type, conf, sent) ==
            Returned([cited                |-> TRUE,
                      citationType         |-> type,
                      sentiment            |-> sent,
                      position             |-> detectPosition(resp, brandPattern),
                      competitorsMentioned |-> detectCompetitors(resp, comps),
                      confidence           |-> conf])
    IN  IF brandPattern.err THEN Threw
        ELSE IF urlMatch
        THEN found("url-link", LayerConfidence("url"),
                   IF urlIndex # -1
                   THEN detectSentiment(resp, urlIndex, Len(domain))
                   ELSE NULL)
        ELSE IF exactNameRegex.err THEN Threw
        ELSE IF exactIndex # -1
        THEN found(CitationTypeOf(extractSurroundingText(
                       resp, exactIndex, Len(name), TypeWindow)),
                   LayerConfidence("exact"),
                   detectSentiment(resp, exactIndex, Len(name)))
        ELSE IF partialNameIndex # -1
        THEN found("direct-mention", LayerConfidence("partial"),
                   detectSentiment(resp, partialNameIndex, Len(name)))
        ELSE IF domainIndex # -1
        THEN found("direct-mention", LayerConfidence("domain"),
                   detectSentiment(resp, domainIndex, Len(domain)))
        ELSE Returned([InitialResult EXCEPT
                          !.competitorsMentioned = detectCompetitors(resp, comps)])

-----------------------------------------------------------------------------
(* The prompt builder (src/lib/citation/prompt-builder.ts).                *)
(*                                                                         *)
(* A prompt text is a sequence of pieces.  Each of the characters          *)
(* { } $ & ' is a piece of its own; any other piece is a non-empty run of  *)
(* other characters.  Flat gives the string a text stands for.  No text    *)
(* holds a grave accent, so the replacement pattern made of $ and a grave  *)
(* accent has no case below.                                               *)

RECURSIVE Flat(_)
Flat(text) == IF text = <<>> THEN "" ELSE Head(text) \o Flat(Tail(text))

STANDARD_TEMPLATES ==
    "best-of" :>
        <<"What are the best ", "{", "query", "}",
          "? Please provide a detailed list with recommendations.">> @@
    "top-list" :>
        <<"What are the top 10 ", "{", "query", "}",
          "? Rank them from best to worst with brief explanations.">> @@
    "comparison" :>
        <<"Compare the leading ", "{", "query", "}",
          ". What are the pros and cons of each?">> @@
    "how-to" :>
        <<"How do I choose the right ", "{", "query", "}",
          "? What factors should I consider and what do you recommend?">> @@
    "recommendation" :>
        <<"I need a recommendation for ", "{", "query", "}",
          ". What would you suggest and why?">> @@
    "alternative" :>
        <<"What are the best alternatives for ", "{", "query", "}",
          "? Compare them in detail.">>

VALIDATION_TEMPLATES ==
    "difference" :>
        <<"What", "'", "s the difference between ", "{", "option1", "}",
          " and ", "{", "option2", "}", "? When should I use each?">> @@
    "company-solve" :>
        <<"How do companies solve ", "{", "problem", "}",
          "? What tools and approaches are most common?">> @@
    "best-solution" :>
        <<"What", "'", "s the best solution for ", "{", "problem", "}",
          "? Please provide specific recommendations.">> @@
    "use-case" :>
        <<"What ", "{", "category", "}", " do ", "{", "audience", "}",
          " use and why? What makes it the preferred choice?">> @@
    "when-to-use" :>
        <<"When should I use ", "{", "option1", "}", " vs ", "{",
          "option2", "}", "? Give me specific scenarios for each.">> @@
    "pros-cons" :>
        <<"What are the pros and cons of ", "{", "subject", "}",
          "? Give me an honest assessment.">> @@
    "beginner" :>
        <<"What ", "{", "category", "}", " is best for beginners? I",
          "'",
          "m just getting started and need something easy to learn.">> @@
    "enterprise" :>
        <<"What ", "{", "category", "}",
          " do enterprise companies use? I need something that scales and has enterprise features.">> @@
    "budget" :>
        <<"What", "'", "s the best ", "{", "category", "}",
          " on a budget? I need good value without breaking the bank.">> @@
    "specific-need" :>
        <<"What ", "{", "category", "}", " is best for ", "{",
          "requirement", "}",
          "? This specific feature is critical for my use case.">>

\* { ...STANDARD_TEMPLATES, ...VALIDATION_TEMPLATES }
ALL_TEMPLATES == STANDARD_TEMPLATES @@ VALIDATION_TEMPLATES

\* the properties an object literal inherits from Object.prototype
ObjectPrototypeKeys ==
    {"constructor", "toString", "toLocaleString", "valueOf", "hasOwnProperty",
     "isPrototypeOf", "propertyIsEnumerable", "__proto__",
     "__defineGetter__", "__defineSetter__", "__lookupGetter__",
     "__lookupSetter__"}

\* ALL_TEMPLATES[category]: an own property is a template string, a property
\* found on the prototype is a function or an object, anything else undefined
TemplateOf(cat) ==
    IF cat \in DOMAIN ALL_TEMPLATES
    THEN [kind |-> "string", text |-> ALL_TEMPLATES[cat]]
    ELSE IF cat \in ObjectPrototypeKeys
    THEN [kind |-> "inherited", text |-> <<>>]
    ELSE [kind |-> "undefined", text |-> <<>>]

\* the index of the first "}" after the piece i, 0 when there is none
ClosingAfter(str, i) ==
    LET closing == {j \in (i + 1)..Len(str) : str[j] = "}"}
    IN  IF closing = {} THEN 0 ELSE LeastOf(closing)

\* the last piece of a match of the literal text {key} that starts at the
\* piece i, 0 when there is no match there
KeyMatchEnd(str, i, key) ==
    LET j == ClosingAfter(str, i)
    IN  IF str[i] = "{" /\ j > i + 1 /\ Flat(SubSeq(str, i + 1, j - 1)) = key
        THEN j ELSE 0

\* the same for /\{[^}]+\}/: an opening brace, one character or more that is
\* not a closing brace, a closing brace
TokenMatchEnd(str, i) ==
    LET j == ClosingAfter(str, i)
    IN  IF str[i] = "{" /\ j > i + 1 THEN j ELSE 0

\* the two kinds of pattern of the builder: the text {key}, any token
KeyPattern(key) == [any |-> FALSE, key |-> key]
TokenPattern    == [any |-> TRUE, key |-> ""]

MatchEnd(str, i, pattern) ==
    IF pattern.any THEN TokenMatchEnd(str, i)
    ELSE KeyMatchEnd(str, i, pattern.key)

\* GetSubstitution of String.prototype.replace for a pattern without capture
\* groups, from the piece k of the replacement; the match is str[from..to]
RECURSIVE GetSubstitution(_, _, _, _, _)
GetSubstitution(str, from, to, replacement, k) ==
    IF k > Len(replacement) THEN <<>>
    ELSE IF replacement[k] = "$" /\ k < Len(replacement)
         THEN LET next == replacement[k + 1]
                  rest == GetSubstitution(str, from, to, replacement, k + 2)
              IN  CASE next = "$" -> <<"$">> \o rest
                    [] next = "&" -> SubSeq(str, from, to) \o rest
                    [] next = "'" -> SubSeq(str, to + 1, Len(str)) \o rest
                    [] OTHER      ->
                         <<"$">> \o GetSubstitution(str, from, to, replacement, k + 1)
         ELSE <<replacement[k]>>
                  \o GetSubstitution(str, from, to, replacement, k + 1)

\* str.replace(pattern, replacement) from the piece q on; all says whether
\* the pattern has the flag g
RECURSIVE ReplaceFrom(_, _, _, _, _)
ReplaceFrom(str, q, pattern, replacement, all) ==
    LET starts == {i \in q..Len(str) : MatchEnd(str, i, pattern) # 0}
        from   == LeastOf(starts)
        to     == MatchEnd(str, from, pattern)
    IN  IF starts = {} THEN SubSeq(str, q, Len(str))
        ELSE SubSeq(str, q, from - 1)
             \o GetSubstitution(str, from, to, replacement, 1)
             \o (IF all
                 THEN ReplaceFrom(str, to + 1, pattern, replacement, all)
                 ELSE SubSeq(str, to + 1, Len(str)))

\* template.replace("{query}", query): the first occurrence only
ReplaceFirst(str, key, replacement) ==
    ReplaceFrom(str, 1, KeyPattern(key), replacement, FALSE)

\* result.replace(new RegExp(`\\{${key}\\}`, "g"), value)
ReplaceKey(str, key, value) ==
    ReplaceFrom(str, 1, KeyPattern(key), value, TRUE)

\* result.replace(/\{[^}]+\}/g, query)
ReplaceRemaining(str, replacement) ==
    ReplaceFrom(str, 1, TokenPattern, replacement, TRUE)

\* Object.entries({ query, ...variables }): query comes first, a query of
\* the variables overrides its value, the other keys keep their order
MergedEntries(q, entries) ==
    LET own  == {k \in 1..Len(entries) : entries[k].key = "query"}
        isOther(e) == e.key # "query"
    IN  << [key   |-> "query",
            value |-> IF own = {} THEN q ELSE entries[LeastOf(own)].value] >>
        \o SelectSeq(entries, isOther)

\* the for loop over the entries, from the entry k on
RECURSIVE ReplaceEntries(_, _, _)
ReplaceEntries(str, entries, k) ==
    IF k > Len(entries) THEN str
    ELSE ReplaceEntries(IF entries[k].value # <<>>
                        THEN ReplaceKey(str, entries[k].key, entries[k].value)
                        ELSE str,
                        entries, k + 1)

FallbackPrompt(q) ==
    <<"Tell me about ">> \o q
        \o <<". What are the best options and what would you recommend?">>

PromptThrew == [threw |-> TRUE, value |-> <<>>]

\* buildProbePrompt(query, category, variables): [threw, value]
buildProbePrompt(q, cat, vs) ==
    LET template == TemplateOf(cat)
    IN  IF template.kind = "undefined" THEN Returned(FallbackPrompt(q))
        \* a function or an object has no method replace: TypeError
        ELSE IF template.kind # "string" THEN PromptThrew
        ELSE IF ~vs.given \/ Len(vs.entries) = 0
        THEN Returned(ReplaceFirst(template.text, "query", q))
        ELSE Returned(ReplaceRemaining(
                 ReplaceEntries(template.text, MergedEntries(q, vs.entries), 1),
                 q))

-----------------------------------------------------------------------------
(* The calls.  Texts are concatenations of fragments.                      *)

\* buildProbePrompt called without its optional third argument
NoVariables == [given |-> FALSE, entries |-> <<>>]

\* a call of the detector: no prompt is being built
NoPromptArguments ==
    /\ query = <<>>
    /\ category = ""
    /\ variables = NoVariables

\* nothing has used the rate limiter, the cache or the database
NoServices ==
    /\ now = 0
    /\ minuteWindows = <<>>
    /\ dailyUsage = <<>>
    /\ cacheEntry = <<>>
    /\ citationRun = <<>>
    /\ citationResult = <<>>
    /\ proc = <<>>

\* the first call of a caller
NoEarlierCalls ==
    /\ lastIndex = 0
    /\ calls = <<>>

RECURSIVE Concat(_)
Concat(parts) ==
    IF parts = <<>> THEN <<>> ELSE Head(parts) \o Concat(Tail(parts))

\* the texts made of at most n fragments
TextsOf(fragments, n) ==
    {Concat(parts) : parts \in UNION {[1..k -> fragments] : k \in 0..n}}

Spaces(n) == [i \in 1..n |-> " "]

TxtGo       == <<"G","o">>
TxtGoogle   == <<"G","o","o","g","l","e">>
TxtCpp      == <<"C","+","+">>
TxtParen    == <<"a","(","b">>
TxtAcme     == <<"A","c","m","e">>
TxtAcmeCom  == <<"a","c","m","e",".","c","o","m">>
TxtAcmeXcom == <<"a","c","m","e","X","c","o","m">>
TxtAcmeUrl  == <<"h","t","t","p","s",":","/","/","A","c","m","e",".","c","o","m">>
TxtItem1    == <<"\n","1","."," ">>
TxtGoogleCom == <<"g","o","o","g","l","e",".","c","o","m">>

MaxLayerParts == 3

LayerFragments ==
    {TxtGo, TxtGoogle, TxtCpp, TxtParen, TxtAcmeUrl, TxtAcmeXcom, TxtAcmeCom,
     TxtItem1}

LayerNames   == {TxtGo, TxtCpp, TxtParen}
LayerDomains == {TxtAcmeCom, <<>>}
LayerCompetitors == << [name |-> TxtGoogle, domain |-> TxtGoogleCom] >>

InitLayers ==
    /\ pc = "call"
    /\ fn = "detectCitation"
    /\ response \in TextsOf(LayerFragments, MaxLayerParts)
    /\ brandName \in LayerNames
    /\ brandDomain \in LayerDomains
    /\ competitors = LayerCompetitors
    /\ matchIndex = 0
    /\ matchLength = 0
    /\ result = InitialResult
    /\ NoPromptArguments
    /\ NoEarlierCalls
    /\ NoServices

\* one call of detectCitation, from its first statement to its return or throw
DetectCitation ==
    /\ pc = "call"
    /\ fn = "detectCitation"
    /\ LET r == detectCitation(response, brandName, brandDomain, competitors)
       IN  /\ pc' = IF r.threw THEN "threw" ELSE "returned"
           /\ result' = r.value
    \* detectPosition runs when a layer has fired; its loop is left with a
    \* position or after exec has returned null
    /\ lastIndex' =
           IF pc' = "threw" \/ ~result'.cited THEN lastIndex
           ELSE IF result'.position = NoPosition THEN 0
           ELSE LastIndexFrom(response, NewRegexLastIndex(lastIndex) + 1,
                              RegExp(BrandPatternSource(brandName, brandDomain)))
    /\ UNCHANGED <<args, calls, services>>

SpecLayers == InitLayers /\ [][DetectCitation]_vars

TxtVs     == <<" ","v","s">>
TxtTry    == <<" ","t","r","y">>
TxtGoDev  == <<"g","o",".","d","e","v">>
TxtScheme == <<"h","t","t","p","s",":","/","/">>
TxtBest   == <<"b","e","s","t">>
TxtAvoid  == <<"a","v","o","i","d">>
TxtPoor   == <<"p","o","o","r">>

MaxTypeParts == 3

\* texts that put a keyword just inside or just outside the 200-character window
TypeFragments ==
    {TxtAcme, TxtVs, TxtTry, Spaces(TypeWindow - 3), TxtGoDev, TxtScheme}

InitType ==
    /\ pc = "call"
    /\ fn = "detectCitation"
    /\ response \in TextsOf(TypeFragments, MaxTypeParts)
    /\ brandName = TxtAcme
    /\ brandDomain = TxtGoDev
    /\ competitors = <<>>
    /\ matchIndex = 0
    /\ matchLength = 0
    /\ result = InitialResult
    /\ NoPromptArguments
    /\ NoEarlierCalls
    /\ NoServices

SpecType == InitType /\ [][DetectCitation]_vars

\* responses that put a sentiment keyword at the very end of the window of a
\* brand match, or outside it
MaxWindowParts == 3

WindowFragments ==
    {TxtAcme, TxtGoDev, TxtScheme, TxtBest, TxtPoor,
     Spaces(SentimentWindow - Len(TxtBest)), Spaces(SentimentWindow)}

InitWindow ==
    /\ pc = "call"
    /\ fn = "detectCitation"
    /\ response \in TextsOf(WindowFragments, MaxWindowParts)
    /\ brandName = TxtAcme
    /\ brandDomain = TxtGoDev
    /\ competitors = <<>>
    /\ matchIndex = 0
    /\ matchLength = 0
    /\ result = InitialResult
    /\ NoPromptArguments
    /\ NoEarlierCalls
    /\ NoServices

SpecWindow == InitWindow /\ [][DetectCitation]_vars

MaxSentimentParts == 5

\* texts that put a keyword inside or outside the 120-character window
SentimentFragments == {TxtBest, TxtAvoid, TxtPoor, Spaces(SentimentWindow)}

InitSentiment ==
    /\ pc = "call"
    /\ fn = "detectSentiment"
    /\ response \in TextsOf(SentimentFragments, MaxSentimentParts)
    /\ brandName = <<>>
    /\ brandDomain = <<>>
    /\ competitors = <<>>
    /\ matchIndex = 0
    /\ matchLength = Len(TxtBest)
    /\ result = NULL
    /\ NoPromptArguments
    /\ NoEarlierCalls
    /\ NoServices

\* one call of detectSentiment
DetectSentiment ==
    /\ pc = "call"
    /\ fn = "detectSentiment"
    /\ pc' = "returned"
    /\ result' = detectSentiment(response, matchIndex, matchLength)
    /\ UNCHANGED <<args, lastIndex, calls, services>>

SpecSentiment == InitSentiment /\ [][DetectSentiment]_vars

TxtZed       == <<"Z","e","d">>
TxtLine2Acme == <<"2",")"," ","A","c","m","e","\n">>
TxtLine1Acme == <<"1","."," ","a","c","m","e","\n">>
TxtLine1Zed  == <<"1","."," ","Z","e","d","\n">>
TxtMarkOnly  == <<"1",".","\n">>
TxtLine0     == <<"0","."," ","g","o",".","d","e","v","\n">>
TxtLine12    == <<" ","1","2",":"," ","Z","e","d"," ","A","C","M","E","\n">>
TxtNoSpace   == <<"3",".","A","c","m","e","\n">>
TxtLine123   == <<"1","2","3","."," ","A","c","m","e","\n">>

MaxPositionParts == 3

\* numbered lists: lines with and without the brand, a line that is only a
\* marker, markers of one, two and three digits, a marker without whitespace
PositionFragments ==
    {TxtLine2Acme, TxtLine1Acme, TxtLine1Zed, TxtMarkOnly, TxtLine0,
     TxtLine12, TxtNoSpace, TxtLine123, TxtAcme}

InitPosition ==
    /\ pc = "call"
    /\ fn = "detectCitation"
    /\ response \in TextsOf(PositionFragments, MaxPositionParts)
    /\ brandName = TxtAcme
    /\ brandDomain = TxtGoDev
    /\ competitors = <<>>
    /\ matchIndex = 0
    /\ matchLength = 0
    /\ result = InitialResult
    /\ NoPromptArguments
    /\ NoEarlierCalls
    /\ NoServices

SpecPosition == InitPosition /\ [][DetectCitation]_vars

TxtAlpha   == <<"A","l","p","h","a">>
TxtAlphaIo == <<"a","l","p","h","a",".","i","o">>
TxtBeta    == <<"B","e","t","a">>
TxtBetaUp  == <<"B","E","T","A">>
TxtBetaIo  == <<"b","e","t","a",".","i","o">>
TxtGamma   == <<"G","a","m","m","a">>
TxtDot     == <<".">>

CompAlpha == [name |-> TxtAlpha, domain |-> TxtAlphaIo]
CompBeta  == [name |-> TxtBeta,  domain |-> TxtBetaIo]
\* a record the brand route accepts: z.string() admits the empty domain
CompGamma == [name |-> TxtGamma, domain |-> <<>>]

MaxCompetitors == 3
MaxCompetitorParts == 2

CompetitorRecords == {CompAlpha, CompBeta, CompGamma}

\* the configured lists, a record may be configured twice
CompetitorLists ==
    UNION {[1..k -> CompetitorRecords] : k \in 0..MaxCompetitors}

CompetitorFragments == {TxtAlpha, TxtBetaUp, TxtBetaIo, TxtAcme, TxtDot}

InitCompetitors ==
    /\ pc = "call"
    /\ fn = "detectCitation"
    /\ response \in TextsOf(CompetitorFragments, MaxCompetitorParts)
    /\ brandName = TxtAcme
    /\ brandDomain = TxtGoDev
    /\ competitors \in CompetitorLists
    /\ matchIndex = 0
    /\ matchLength = 0
    /\ result = InitialResult
    /\ NoPromptArguments
    /\ NoEarlierCalls
    /\ NoServices

SpecCompetitors == InitCompetitors /\ [][DetectCitation]_vars

TxtCrmTools == <<"CRM tools">>
TxtDollar   == <<"$">>
TxtAmp      == <<"&">>
TxtAcmeWord == <<"Acme">>
TxtBetaWord == <<"Beta">>

MaxQueryParts == 2

\* queries in plain words and with the characters that String.prototype.replace
\* reads as a replacement pattern
QueryFragments == {TxtCrmTools, TxtDollar, TxtAmp}

\* the sixteen known categories, a name no object has, a name every object has
PromptCategories ==
    DOMAIN ALL_TEMPLATES \cup {"unknown-category", "constructor"}

Variables(entries) == [given |-> TRUE, entries |-> entries]

PromptVariables ==
    {NoVariables,
     Variables(<<>>),
     Variables(<< [key |-> "option1", value |-> TxtAcmeWord] >>),
     Variables(<< [key |-> "option1", value |-> TxtAcmeWord],
                  [key |-> "option2", value |-> TxtBetaWord] >>),
     Variables(<< [key |-> "category", value |-> TxtCrmTools] >>),
     Variables(<< [key |-> "subject", value |-> <<>>] >>),
     Variables(<< [key |-> "query", value |-> TxtAcmeWord] >>),
     Variables(<< [key |-> "option1", value |-> TxtDollar \o TxtAmp] >>)}

InitPrompt ==
    /\ pc = "call"
    /\ fn = "buildProbePrompt"
    /\ response = <<>>
    /\ brandName = <<>>
    /\ brandDomain = <<>>
    /\ competitors = <<>>
    /\ matchIndex = 0
    /\ matchLength = 0
    /\ query \in TextsOf(QueryFragments, MaxQueryParts)
    /\ category \in PromptCategories
    /\ variables \in PromptVariables
    /\ result = <<>>
    /\ NoEarlierCalls
    /\ NoServices

\* one call of buildProbePrompt, from its first statement to its return or throw
BuildProbePrompt ==
    /\ pc = "call"
    /\ fn = "buildProbePrompt"
    /\ LET r == buildProbePrompt(query, category, variables)
       IN  /\ pc' = IF r.threw THEN "threw" ELSE "returned"
           /\ result' = r.value
    /\ UNCHANGED <<args, lastIndex, calls, services>>

SpecPrompt == InitPrompt /\ [][BuildProbePrompt]_vars

MaxCalls == 3

DetectorCall(resp, comps) ==
    [fn |-> "detectCitation", response |-> resp, competitors |-> comps,
     query |-> <<>>, category |-> "", variables |-> NoVariables]

PromptCall(q, cat, vs) ==
    [fn |-> "buildProbePrompt", response |-> <<>>, competitors |-> <<>>,
     query |-> q, category |-> cat, variables |-> vs]

\* the calls a caller makes, for the brand Acme / go.dev
SessionCalls ==
    {DetectorCall(TxtLine2Acme \o TxtLine1Acme, <<CompAlpha>>),
     DetectorCall(TxtLine1Zed \o TxtLine2Acme, <<CompAlpha>>),
     DetectorCall(TxtLine1Zed \o TxtAlpha, <<CompAlpha>>),
     DetectorCall(TxtAcme, <<>>),
     PromptCall(TxtCrmTools, "best-of", NoVariables),
     PromptCall(TxtCrmTools, "difference",
                Variables(<< [key |-> "option1", value |-> TxtAcmeWord] >>))}

\* the arguments of the call c are bound, its body has not run
Calling(c) ==
    /\ pc' = "call"
    /\ fn' = c.fn
    /\ response' = c.response
    /\ brandName' = IF c.fn = "detectCitation" THEN TxtAcme ELSE <<>>
    /\ brandDomain' = IF c.fn = "detectCitation" THEN TxtGoDev ELSE <<>>
    /\ competitors' = c.competitors
    /\ matchIndex' = 0
    /\ matchLength' = 0
    /\ query' = c.query
    /\ category' = c.category
    /\ variables' = c.variables
    /\ result' = IF c.fn = "detectCitation" THEN InitialResult ELSE <<>>

InitSession ==
    /\ pc = "call"
    /\ \E c \in SessionCalls :
           /\ fn = c.fn
           /\ response = c.response
           /\ brandName = (IF c.fn = "detectCitation" THEN TxtAcme ELSE <<>>)
           /\ brandDomain = (IF c.fn = "detectCitation" THEN TxtGoDev ELSE <<>>)
           /\ competitors = c.competitors
           /\ query = c.query
           /\ category = c.category
           /\ variables = c.variables
           /\ result = (IF c.fn = "detectCitation" THEN InitialResult ELSE <<>>)
    /\ matchIndex = 0
    /\ matchLength = 0
    /\ NoEarlierCalls
    /\ NoServices

\* the caller, back from a call, makes its next call
NextCall ==
    /\ pc \in {"returned", "threw"}
    /\ Len(calls) + 1 < MaxCalls
    /\ calls' = Append(calls, [args |-> args, pc |-> pc, result |-> result])
    /\ \E c \in SessionCalls : Calling(c)
    /\ UNCHANGED <<lastIndex, services>>

NextSession == DetectCitation \/ BuildProbePrompt \/ NextCall

SpecSession == InitSession /\ [][NextSession]_vars

-----------------------------------------------------------------------------
(* generateValidationProbes.                                               *)

Entry(key, value) == [key |-> key, value |-> value]

\* one element of probes: the prompt is what buildProbePrompt returns
Probe(cat, q, passed, vs) ==
    [category  |-> cat,
     prompt    |-> buildProbePrompt(q, cat, passed).value,
     variables |-> vs]

\* a plausible slip: the cap on the competitors is left out
AllCompetitors(comps) == comps

\* competitors.slice(0, 3)
FirstCompetitors(comps) == SubSeq(comps, 1, Min(3, Len(comps)))

\* the two probes pushed for one competitor
CompetitorProbes(brand, cat, competitor) ==
    LET passed == Variables(<<Entry("option1", brand),
                              Entry("option2", competitor)>>)
        vs     == Variables(<<Entry("option1", brand),
                              Entry("option2", competitor),
                              Entry("category", cat)>>)
    IN  <<Probe("difference", cat, passed, vs),
          Probe("when-to-use", cat, passed, vs)>>

\* for (const competitor of competitors.slice(0, 3)), from the element i on
RECURSIVE DifferenceProbes(_, _, _, _)
DifferenceProbes(brand, cat, comps, i) ==
    IF i > Len(comps) THEN <<>>
    ELSE CompetitorProbes(brand, cat, comps[i])
             \o DifferenceProbes(brand, cat, comps, i + 1)

audiences ==
    << <<"startups">>, <<"small businesses">>, <<"enterprise companies">>,
       <<"freelancers">> >>

\* for (const audience of audiences)
AudienceProbes(cat) ==
    [k \in 1..Len(audiences) |->
        LET vs == Variables(<<Entry("category", cat),
                              Entry("audience", audiences[k])>>)
        IN  Probe("use-case", cat, vs, vs)]

generateValidationProbes(brand, cat, comps) ==
    LET problem  == <<"choosing the right ">> \o cat
        query1   == Variables(<<Entry("query", cat)>>)
        solve    == Variables(<<Entry("problem", problem)>>)
        category1 == Variables(<<Entry("category", cat)>>)
        subject1 == Variables(<<Entry("subject", brand)>>)
    IN  <<Probe("best-of", cat, NoVariables, query1),
          Probe("top-list", cat, NoVariables, query1)>>
        \o DifferenceProbes(brand, cat, FirstCompetitors(comps), 1)
        \o <<Probe("company-solve", cat, solve, solve)>>
        \o AudienceProbes(cat)
        \o <<Probe("beginner", cat, category1, category1),
              Probe("budget", cat, category1, category1),
              Probe("enterprise", cat, category1, category1),
              Probe("pros-cons", brand, subject1, subject1)>>

MaxProbeCompetitors == 4

ProbeBrands == {TxtAcmeWord, TxtDollar \o TxtAmp}
ProbeCompetitorNames == {TxtBetaWord, <<"Gamma">>}

InitProbes ==
    /\ pc = "call"
    /\ fn = "generateValidationProbes"
    /\ response = <<>>
    /\ brandName \in ProbeBrands
    /\ brandDomain = <<>>
    /\ competitors \in
           UNION {[1..k -> ProbeCompetitorNames] : k \in 0..MaxProbeCompetitors}
    /\ matchIndex = 0
    /\ matchLength = 0
    \* the parameter category of generateValidationProbes, a text
    /\ query \in TextsOf(QueryFragments, MaxQueryParts)
    /\ category = ""
    /\ variables = NoVariables
    /\ result = <<>>
    /\ NoEarlierCalls
    /\ NoServices

\* one call of generateValidationProbes
GenerateValidationProbes ==
    /\ pc = "call"
    /\ fn = "generateValidationProbes"
    /\ pc' = "returned"
    /\ result' = generateValidationProbes(brandName, query, competitors)
    /\ UNCHANGED <<args, lastIndex, calls, services>>

SpecProbes == InitProbes /\ [][GenerateValidationProbes]_vars

-----------------------------------------------------------------------------
(* The rate limiter.  minuteWindows and dailyUsage are the two Maps of the *)
(* module: a provider is in the domain once its entry has been set.  Time  *)
(* is in milliseconds, tokens are counted as they are, and costs are in    *)
(* cents (the cap of 5.0 dollars a day is 500).  A caller asks             *)
(* canMakeRequest for its provider, sends its request if the answer was    *)
(* true, and records the usage when the request has come back; each of the *)
(* two functions runs to its end without interruption, and the request     *)
(* between them is awaited, so that other callers and the clock move       *)
(* meanwhile.                                                              *)

\* the state of the citation library, which the services leave alone
library == <<pc, args, result, lastIndex, calls>>

\* no function of the citation library is being called
NoLibraryCall ==
    /\ pc = "idle"
    /\ fn = ""
    /\ response = <<>>
    /\ brandName = <<>>
    /\ brandDomain = <<>>
    /\ competitors = <<>>
    /\ matchIndex = 0
    /\ matchLength = 0
    /\ NoPromptArguments
    /\ result = <<>>
    /\ NoEarlierCalls

Limits ==
    [maxTokensPerMinute |-> 100000, maxRequestsPerMinute |-> 60,
     dailyCostCap |-> 500]

PROVIDER_LIMITS ==
    [provider \in {"openai", "anthropic", "google", "perplexity"} |-> Limits]

ONE_MINUTE_MS == 60000
ONE_DAY_MS == 86400000

getProviderConfig(provider) ==
    IF provider \in DOMAIN PROVIDER_LIMITS THEN PROVIDER_LIMITS[provider]
    ELSE Limits

\* the window test of getCurrentMinuteWindow, with <= in place of <
MinuteWindowKeptAtEnd(windows, provider) ==
    /\ provider \in DOMAIN windows
    /\ now - windows[provider].windowStart <= ONE_MINUTE_MS

\* existing && now - existing.windowStart < ONE_MINUTE_MS
MinuteWindowKept(windows, provider) ==
    /\ provider \in DOMAIN windows
    /\ now - windows[provider].windowStart < ONE_MINUTE_MS

\* the Map minuteWindows after getCurrentMinuteWindow(provider); the window
\* the call returns is the provider's entry of it
getCurrentMinuteWindow(windows, provider) ==
    IF MinuteWindowKept(windows, provider) THEN windows
    ELSE (provider :> [tokens |-> 0, requests |-> 0, windowStart |-> now])
             @@ windows

\* the Map dailyUsage after getCurrentDailyUsage(provider)
getCurrentDailyUsage(usage, provider) ==
    IF /\ provider \in DOMAIN usage
       /\ now - usage[provider].dayStart < ONE_DAY_MS
    THEN usage
    ELSE (provider :> [cost |-> 0, dayStart |-> now]) @@ usage

\* canMakeRequest without the check of the requests
TokensAndCostAllow(config, window, daily) ==
    /\ ~(window.tokens >= config.maxTokensPerMinute)
    /\ ~(daily.cost >= config.dailyCostCap)

\* the three tests of canMakeRequest
LimitsAllow(config, window, daily) ==
    /\ ~(window.tokens >= config.maxTokensPerMinute)
    /\ ~(window.requests >= config.maxRequestsPerMinute)
    /\ ~(daily.cost >= config.dailyCostCap)

\* the value canMakeRequest(provider) returns
canMakeRequest(provider) ==
    LimitsAllow(getProviderConfig(provider),
                getCurrentMinuteWindow(minuteWindows, provider)[provider],
                getCurrentDailyUsage(dailyUsage, provider)[provider])

\* the Map minuteWindows after recordUsage(provider, tokens, cost)
RecordedWindows(provider, tokens) ==
    LET windows == getCurrentMinuteWindow(minuteWindows, provider)
    IN  [windows EXCEPT ![provider] =
            [@ EXCEPT !.tokens = @ + tokens, !.requests = @ + 1]]

\* the Map dailyUsage after recordUsage(provider, tokens, cost)
RecordedDaily(provider, cost) ==
    LET usage == getCurrentDailyUsage(dailyUsage, provider)
    IN  [usage EXCEPT ![provider] = [@ EXCEPT !.cost = @ + cost]]

\* a caller asks whether it may send a request
CanMakeRequest(c) ==
    /\ proc[c].at \in {"idle", "refused"}
    /\ minuteWindows' = getCurrentMinuteWindow(minuteWindows, proc[c].provider)
    /\ dailyUsage' = getCurrentDailyUsage(dailyUsage, proc[c].provider)
    /\ proc' = [proc EXCEPT ![c].at =
                   IF canMakeRequest(proc[c].provider) THEN "request"
                   ELSE "refused"]
    /\ UNCHANGED <<library, now, cacheEntry, citationRun, citationResult>>

\* what one request may use: tokens and cost in cents
Usages == {[tokens |-> 50000, cost |-> 0], [tokens |-> 0, cost |-> 250]}

\* the request of a caller has come back, and the caller records its usage
RecordUsage(c) ==
    /\ proc[c].at = "request"
    /\ \E usage \in Usages :
           /\ minuteWindows' = RecordedWindows(proc[c].provider, usage.tokens)
           /\ dailyUsage' = RecordedDaily(proc[c].provider, usage.cost)
    /\ proc' = [proc EXCEPT ![c].at = "idle"]
    /\ UNCHANGED <<library, now, cacheEntry, citationRun, citationResult>>

\* the clock moves by one of the steps, as many times as the bound allows
\* and up to LastTime, two weeks after the start, which is later than every
\* time the limits and the TTLs speak of; the steps of the rate limiter are
\* half a minute and a day
MaxTicks == 3
LastTime == 14 * ONE_DAY_MS
TickSteps == {ONE_MINUTE_MS \div 2, ONE_DAY_MS}
Ticks ==
    now \div (7 * ONE_DAY_MS) + (now % (7 * ONE_DAY_MS)) \div ONE_DAY_MS
        + (now % ONE_DAY_MS) \div (ONE_MINUTE_MS \div 2)

Tick(steps, most) ==
    /\ Ticks < most
    /\ \E step \in steps : now + step <= LastTime /\ now' = now + step
    /\ UNCHANGED <<library, minuteWindows, dailyUsage, cacheEntry,
                   citationRun, citationResult, proc>>

\* the requests the earlier callers of a provider have recorded at time 0:
\* none, or all but MaxRequestsLeft or fewer of the requests of a minute
MaxRequestsLeft == 1
Callers == {1, 2}
LimiterProviders == {"openai", "mistral"}

EarlierWindows ==
    {<<>>} \cup
    {(provider :> [tokens |-> 0, requests |-> requests, windowStart |-> 0])
       : provider \in LimiterProviders,
         requests \in (Limits.maxRequestsPerMinute - MaxRequestsLeft)
                          .. Limits.maxRequestsPerMinute}

InitLimiter ==
    /\ NoLibraryCall
    /\ now = 0
    /\ minuteWindows \in EarlierWindows
    /\ dailyUsage = [provider \in DOMAIN minuteWindows |->
                        [cost |-> 0, dayStart |-> 0]]
    /\ cacheEntry = <<>>
    /\ citationRun = <<>>
    /\ citationResult = <<>>
    /\ proc \in [Callers -> [at : {"idle"}, provider : LimiterProviders]]

NextLimiter ==
    \/ \E c \in Callers : CanMakeRequest(c)
    \/ \E c \in Callers : RecordUsage(c)
    \/ Tick(TickSteps, MaxTicks)

SpecLimiter == InitLimiter /\ [][NextLimiter]_vars

-----------------------------------------------------------------------------
(* The cache.  cacheEntry is the table behind prisma.cacheEntry: a key is  *)
(* in its domain when the table holds an entry for it.  Every await of a   *)
(* database call is a place where other callers and the clock move, so a   *)
(* call is one step up to each database call and one step for the call     *)
(* itself: findUnique, delete, upsert and deleteMany each act on the table *)
(* at once.  The n-th setCache call writes the value "v" followed by n,    *)
(* and calls lists the upserts done, in order, each with the time its      *)
(* setCache call began at.                                                 *)

TTL_PROBE_MS == 24 * 60 * 60 * 1000
TTL_CONTENT_MS == 7 * 24 * 60 * 60 * 1000

\* what findUnique gives for a key the table does not hold
NoEntry == [value |-> NULL, type |-> NULL, expiresAt |-> 0]

\* a caller that is in no call
IdleCaller ==
    [op |-> "", at |-> "idle", entry |-> NoEntry, date |-> 0, writes |-> 0,
     value |-> NULL]

\* a caller may start a call
BetweenCalls(c) == proc[c].at \in {"idle", "returned"}

\* getCached: const entry = await prisma.cacheEntry.findUnique(...)
GetCachedFind(c, key) ==
    /\ BetweenCalls(c)
    /\ proc' = [proc EXCEPT ![c] =
                   [IdleCaller EXCEPT
                       !.op = "getCached", !.at = "found", !.date = now,
                       !.entry = IF key \in DOMAIN cacheEntry
                                 THEN cacheEntry[key] ELSE NoEntry,
                       !.writes = Len(calls)]]
    /\ UNCHANGED <<library, now, minuteWindows, dailyUsage, cacheEntry,
                   citationRun, citationResult>>

\* ttl = type === "probe" ? TTL_PROBE_MS : TTL_CONTENT_MS, for a type that
\* is never "probe"
ContentTtl(type) == TTL_CONTENT_MS

Ttl(type) == IF type = "probe" THEN TTL_PROBE_MS ELSE TTL_CONTENT_MS

\* entry.expiresAt < new Date()
Expired(entry, date) == entry.expiresAt < date

\* getCached after findUnique: the tests, and the value returned when the
\* entry is missing or has not expired
GetCachedTest(c) ==
    /\ proc[c].op = "getCached"
    /\ proc[c].at = "found"
    /\ proc' = [proc EXCEPT ![c] =
                   IF proc[c].entry = NoEntry
                   THEN [@ EXCEPT !.at = "returned", !.value = NULL]
                   ELSE IF Expired(proc[c].entry, now)
                   THEN [@ EXCEPT !.at = "delete", !.date = now]
                   ELSE [@ EXCEPT !.at = "returned", !.date = now,
                                  !.value = proc[c].entry.value]]
    /\ UNCHANGED <<library, now, minuteWindows, dailyUsage, cacheEntry,
                   citationRun, citationResult>>

\* getCached: await prisma.cacheEntry.delete({ where: { key } }), whose
\* error for a key the table does not hold is ignored; return null
GetCachedDelete(c, key) ==
    /\ proc[c].op = "getCached"
    /\ proc[c].at = "delete"
    /\ cacheEntry' = [k \in DOMAIN cacheEntry \ {key} |-> cacheEntry[k]]
    /\ proc' = [proc EXCEPT ![c].at = "returned", ![c].value = NULL]
    /\ UNCHANGED <<library, now, minuteWindows, dailyUsage, citationRun,
                   citationResult>>

\* the setCache calls begun so far
Started == Len(calls) + Cardinality({c \in DOMAIN proc : proc[c].at = "upsert"})

\* setCache(key, value, type) up to the upsert: expiresAt is computed
MaxWrites == 2

SetCache(c, type) ==
    /\ BetweenCalls(c)
    /\ Started < MaxWrites
    /\ proc' = [proc EXCEPT ![c] =
                   [IdleCaller EXCEPT
                       !.op = "setCache", !.at = "upsert",
                       !.date = now,
                       !.entry = [value |-> "v" \o ToString(Started + 1),
                                  type |-> type,
                                  expiresAt |-> now + Ttl(type)]]]
    /\ UNCHANGED <<library, now, minuteWindows, dailyUsage, cacheEntry,
                   citationRun, citationResult>>

\* setCache: await prisma.cacheEntry.upsert(...)
SetCacheUpsert(c, key) ==
    /\ proc[c].op = "setCache"
    /\ proc[c].at = "upsert"
    /\ cacheEntry' = (key :> proc[c].entry) @@ cacheEntry
    /\ calls' = Append(calls, [value |-> proc[c].entry.value,
                               type |-> proc[c].entry.type,
                               expiresAt |-> proc[c].entry.expiresAt,
                               began |-> proc[c].date])
    /\ proc' = [proc EXCEPT ![c].at = "returned"]
    /\ UNCHANGED <<pc, args, result, lastIndex, now, minuteWindows,
                   dailyUsage, citationRun, citationResult>>

\* clearExpiredCache up to the deleteMany: new Date() is taken
ClearExpiredCache(c) ==
    /\ BetweenCalls(c)
    /\ proc' = [proc EXCEPT ![c] =
                   [IdleCaller EXCEPT
                       !.op = "clearExpiredCache", !.at = "deleteMany",
                       !.date = now]]
    /\ UNCHANGED <<library, now, minuteWindows, dailyUsage, cacheEntry,
                   citationRun, citationResult>>

\* the keys deleteMany({ where: { expiresAt: { lt: date } } }) deletes
ExpiredKeys(date) ==
    {key \in DOMAIN cacheEntry : cacheEntry[key].expiresAt < date}

\* clearExpiredCache: await prisma.cacheEntry.deleteMany(...); return count
ClearExpiredCacheDeleteMany(c) ==
    /\ proc[c].op = "clearExpiredCache"
    /\ proc[c].at = "deleteMany"
    /\ cacheEntry' = [key \in DOMAIN cacheEntry \ ExpiredKeys(proc[c].date)
                          |-> cacheEntry[key]]
    /\ proc' = [proc EXCEPT ![c].at = "returned",
                            ![c].value =
                                ToString(Cardinality(ExpiredKeys(proc[c].date)))]
    /\ UNCHANGED <<library, now, minuteWindows, dailyUsage, citationRun,
                   citationResult>>

\* the clock of the cache moves by a day or by a week, so that both TTLs
\* are reached to the millisecond and passed
MaxCacheTicks == 2
CacheTickSteps == {ONE_DAY_MS, 7 * ONE_DAY_MS}
CacheKeys == {"key"}
CacheTypes == {"probe", "content"}
CacheCallers == {1, 2}

InitCache ==
    /\ NoLibraryCall
    /\ now = 0
    /\ minuteWindows = <<>>
    /\ dailyUsage = <<>>
    /\ cacheEntry = <<>>
    /\ citationRun = <<>>
    /\ citationResult = <<>>
    /\ proc = [c \in CacheCallers |-> IdleCaller]

NextCache ==
    \/ \E c \in CacheCallers, key \in CacheKeys : GetCachedFind(c, key)
    \/ \E c \in CacheCallers : GetCachedTest(c)
    \/ \E c \in CacheCallers, key \in CacheKeys : GetCachedDelete(c, key)
    \/ \E c \in CacheCallers, type \in CacheTypes : SetCache(c, type)
    \/ \E c \in CacheCallers, key \in CacheKeys : SetCacheUpsert(c, key)
    \/ \E c \in CacheCallers : ClearExpiredCache(c)
    \/ \E c \in CacheCallers : ClearExpiredCacheDeleteMany(c)
    \/ Tick(CacheTickSteps, MaxCacheTicks)

SpecCache == InitCache /\ [][NextCache]_vars

-----------------------------------------------------------------------------
(* POST /api/citations/probe.  A row of citationRun is the sequence of the *)
(* statuses the run has had, the last one being its status, and the id of  *)
(* a run is its place in the table; citationResult holds the rows in the   *)
(* order they were created in.  The handler is one step up to each await   *)
(* and one step for each awaited call.  A call to the database succeeds or *)
(* raises, and a call that raises leaves the table as it was; queryLLM     *)
(* returns a response or raises, and always raises for a provider it does  *)
(* not know.  console.error is the log of the handler.                     *)

DEFAULT_MODELS ==
    [provider \in {"openai", "anthropic", "google", "perplexity"} |->
        CASE provider = "openai"    -> "gpt-4o-mini"
          [] provider = "anthropic" -> "claude-3-5-haiku-latest"
          [] provider = "google"    -> "gemini-2.0-flash"
          [] OTHER                  -> "sonar"]

\* getEnabledProviders() where the keys of two providers are set
EnabledProviders == <<"openai", "anthropic">>

\* the rows of prisma.probe with their brand; competitors is the stored JSON
\* text, parsed, or "malformed" when JSON.parse raises on it
ProbeTable ==
    [probeId \in {"p1", "p2", "p3"} |->
        [query       |-> TxtCrmTools,
         category    |-> IF probeId = "p2" THEN "constructor" ELSE "best-of",
         name        |-> TxtAcme,
         domain      |-> TxtGoDev,
         competitors |-> IF probeId = "p3" THEN "malformed" ELSE <<>>]]

\* the request bodies: one that is no JSON, one the schema rejects, and
\* valid ones with and without a list of providers
NoProviders == [given |-> FALSE, list |-> <<>>]
Requested(list) == [given |-> TRUE, list |-> list]

RequestedProviders ==
    {NoProviders, Requested(<<>>), Requested(<<"openai">>),
     Requested(<<"mistral", "openai">>), Requested(<<"google", "google">>)}

Bodies ==
    {[kind |-> "no-json", probeId |-> "", providers |-> NoProviders],
     [kind |-> "invalid", probeId |-> "", providers |-> NoProviders]}
    \cup
    [kind : {"valid"}, probeId : {"p1", "p2", "p3", "p4"},
     providers : RequestedProviders]

\* the texts a provider may answer with
ResponseTexts == {TxtAcme, TxtZed}

\* no row of citationResult has been made
NoRow ==
    [runId |-> 0, provider |-> "", model |-> "", response |-> <<>>,
     cited |-> FALSE, confidence |-> 0]

\* the handler before its first statement
NewHandler(body) ==
    [op |-> "POST", at |-> "POST", body |-> body, probe |-> ProbeTable["p1"],
     providers |-> <<>>, i |-> 0, runId |-> 0, row |-> NoRow,
     results |-> 0, logged |-> <<>>, status |-> 0]

\* return NextResponse.json(..., { status })
Respond(handler, status) ==
    [handler EXCEPT !.at = "returned", !.status = status]

\* the outer catch that leaves the run alone
CaughtWithoutUpdate(handler) ==
    Respond([handler EXCEPT !.logged = Append(@, <<"Failed to run probe">>)],
            500)

\* the outer catch up to its await
Caught(handler) ==
    LET logging == [handler EXCEPT
                       !.logged = Append(@, <<"Failed to run probe">>)]
    IN  IF handler.runId # 0
        THEN [logging EXCEPT !.at = "fail"]
        ELSE Respond(logging, 500)

\* the catch of the provider loop up to its await: the error that was
\* raised is logged with the provider
ProviderCaught(handler, error) ==
    [handler EXCEPT
        !.at = "fallback",
        !.logged = Append(@, <<"Provider failed", handler.i, error>>)]

\* the loop that is left after the first provider has failed
NextProviderUnlessFailed(handler) ==
    IF handler.i < Len(handler.providers) /\ handler.row.model # "unknown"
    THEN [handler EXCEPT !.at = "query", !.i = @ + 1]
    ELSE [handler EXCEPT !.at = "complete"]

\* the next turn of the for loop, or the statement after the loop
NextProvider(handler) ==
    IF handler.i < Len(handler.providers)
    THEN [handler EXCEPT !.at = "query", !.i = @ + 1]
    ELSE [handler EXCEPT !.at = "complete"]

\* request.json() and the schema
Post(h) ==
    /\ proc[h].at = "POST"
    /\ proc' = [proc EXCEPT ![h] =
                   CASE proc[h].body.kind = "no-json" -> Caught(proc[h])
                     [] proc[h].body.kind = "invalid" -> Respond(proc[h], 400)
                     [] OTHER -> [proc[h] EXCEPT !.at = "probe"]]
    /\ UNCHANGED <<library, now, minuteWindows, dailyUsage, cacheEntry,
                   citationRun, citationResult>>

\* await prisma.probe.findUnique, then the prompt, the competitors and the
\* providers
FindProbe(h) ==
    /\ proc[h].at = "probe"
    /\ \E ok \in BOOLEAN :
           proc' = [proc EXCEPT ![h] =
               IF ~ok THEN Caught(proc[h])
               ELSE IF proc[h].body.probeId \notin DOMAIN ProbeTable
               THEN Respond(proc[h], 404)
               ELSE LET probe  == ProbeTable[proc[h].body.probeId]
                        prompt == buildProbePrompt(probe.query, probe.category,
                                                   NoVariables)
                    IN  IF prompt.threw \/ probe.competitors = "malformed"
                        THEN Caught([proc[h] EXCEPT !.probe = probe])
                        ELSE [proc[h] EXCEPT
                                 !.at = "run",
                                 !.probe = probe,
                                 !.providers =
                                     IF proc[h].body.providers.given
                                     THEN proc[h].body.providers.list
                                     ELSE EnabledProviders]]
    /\ UNCHANGED <<library, now, minuteWindows, dailyUsage, cacheEntry,
                   citationRun, citationResult>>

\* await prisma.citationRun.create: status "running"
CreateRun(h) ==
    /\ proc[h].at = "run"
    /\ \E ok \in BOOLEAN :
           IF ok
           THEN /\ citationRun' = Append(citationRun, <<"running">>)
                /\ proc' = [proc EXCEPT ![h] =
                               NextProvider([proc[h] EXCEPT
                                   !.runId = Len(citationRun) + 1])]
           ELSE /\ citationRun' = citationRun
                /\ proc' = [proc EXCEPT ![h] = Caught(proc[h])]
    /\ UNCHANGED <<library, now, minuteWindows, dailyUsage, cacheEntry,
                   citationResult>>

\* the row of citationResult for a response
ResultRow(handler, text) ==
    LET provider == handler.providers[handler.i]
        citation == detectCitation(text, handler.probe.name,
                                   handler.probe.domain,
                                   handler.probe.competitors).value
    IN  [runId |-> handler.runId, provider |-> provider,
         model |-> DEFAULT_MODELS[provider], response |-> text,
         cited |-> citation.cited, confidence |-> citation.confidence]

\* the row the catch of the loop creates
FallbackRow(handler) ==
    [runId |-> handler.runId, provider |-> handler.providers[handler.i],
     model |-> "unknown", response |-> <<>>, cited |-> FALSE,
     confidence |-> 0]

\* await queryLLM, then detectCitation
QueryLLM(h) ==
    /\ proc[h].at = "query"
    /\ LET provider == proc[h].providers[proc[h].i]
       IN  \/ proc' = [proc EXCEPT ![h] = ProviderCaught(proc[h], "queryLLM")]
           \/ /\ provider \in DOMAIN DEFAULT_MODELS
              /\ \E text \in ResponseTexts :
                     proc' = [proc EXCEPT ![h] =
                                 [proc[h] EXCEPT
                                     !.at = "result",
                                     !.row = ResultRow(proc[h], text)]]
    /\ UNCHANGED <<library, now, minuteWindows, dailyUsage, cacheEntry,
                   citationRun, citationResult>>

\* await prisma.citationResult.create in the try block; results.push
CreateResult(h) ==
    /\ proc[h].at = "result"
    /\ \E ok \in BOOLEAN :
           IF ok
           THEN /\ citationResult' = Append(citationResult, proc[h].row)
                /\ proc' = [proc EXCEPT ![h] =
                               NextProvider([proc[h] EXCEPT !.results = @ + 1])]
           ELSE /\ citationResult' = citationResult
                /\ proc' = [proc EXCEPT ![h] = ProviderCaught(proc[h], "database")]
    /\ UNCHANGED <<library, now, minuteWindows, dailyUsage, cacheEntry,
                   citationRun>>

\* await prisma.citationResult.create in the catch block; results.push
CreateFallback(h) ==
    /\ proc[h].at = "fallback"
    /\ \E ok \in BOOLEAN :
           IF ok
           THEN /\ citationResult' =
                       Append(citationResult, FallbackRow(proc[h]))
                /\ proc' = [proc EXCEPT ![h] =
                               NextProvider([proc[h] EXCEPT
                                   !.results = @ + 1,
                                   !.row = FallbackRow(proc[h])])]
           ELSE /\ citationResult' = citationResult
                /\ proc' = [proc EXCEPT ![h] = Caught(proc[h])]
    /\ UNCHANGED <<library, now, minuteWindows, dailyUsage, cacheEntry,
                   citationRun>>

\* the table after prisma.citationRun.update of the status of a run
Updated(runs, id, status) == [runs EXCEPT ![id] = Append(@, status)]

\* await prisma.citationRun.update: status "completed"; 201
CompleteRun(h) ==
    /\ proc[h].at = "complete"
    /\ \E ok \in BOOLEAN :
           IF ok
           THEN /\ citationRun' =
                       Updated(citationRun, proc[h].runId, "completed")
                /\ proc' = [proc EXCEPT ![h] = Respond(proc[h], 201)]
           ELSE /\ citationRun' = citationRun
                /\ proc' = [proc EXCEPT ![h] = Caught(proc[h])]
    /\ UNCHANGED <<library, now, minuteWindows, dailyUsage, cacheEntry,
                   citationResult>>

\* the outer catch: await prisma.citationRun.update: status "failed", whose
\* error is logged and dropped; 500
FailRun(h) ==
    /\ proc[h].at = "fail"
    /\ \E ok \in BOOLEAN :
           IF ok
           THEN /\ citationRun' = Updated(citationRun, proc[h].runId, "failed")
                /\ proc' = [proc EXCEPT ![h] = Respond(proc[h], 500)]
           ELSE /\ citationRun' = citationRun
                /\ proc' = [proc EXCEPT ![h] =
                               Respond([proc[h] EXCEPT !.logged =
                                   Append(@, <<"Failed to update run status">>)],
                                   500)]
    /\ UNCHANGED <<library, now, minuteWindows, dailyUsage, cacheEntry,
                   citationResult>>

Handlers == {1}

InitRoute ==
    /\ NoLibraryCall
    /\ now = 0
    /\ minuteWindows = <<>>
    /\ dailyUsage = <<>>
    /\ cacheEntry = <<>>
    /\ citationRun = <<>>
    /\ citationResult = <<>>
    /\ proc \in [Handlers -> {NewHandler(body) : body \in Bodies}]

NextRoute ==
    \E h \in Handlers :
        \/ Post(h)
        \/ FindProbe(h)
        \/ CreateRun(h)
        \/ QueryLLM(h)
        \/ CreateResult(h)
        \/ CreateFallback(h)
        \/ CompleteRun(h)
        \/ FailRun(h)

SpecRoute == InitRoute /\ [][NextRoute]_vars

-----------------------------------------------------------------------------
(* What the claims speak of, said of the texts themselves.                 *)

HasReturned == pc = "returned"

\* some http(s) URL of the response contains the lowercased brand domain
UrlHolds(resp, domain) ==
    \E u \in 1..Len(MatchUrls(resp)) :
        Includes(ToLower(MatchUrls(resp)[u]), ToLower(domain))

\* the 0-based indices of the case-insensitive occurrences of word in resp
\* that have a word boundary on both sides
BoundedOccurrences(resp, word) ==
    LET low == ToLower(resp)
        w   == ToLower(word)
    IN  {i \in 0..(Len(resp) - Len(word)) :
            /\ OccursAt(low, w, i)
            /\ WordBoundaryAt(resp, i + 1)
            /\ WordBoundaryAt(resp, i + Len(word) + 1)}

\* a case-insensitive occurrence of word as plain text
Occurs(resp, word) == Includes(ToLower(resp), ToLower(word))

\* the layer the text calls for: the first of the four that matches
LayerOf(resp, name, domain) ==
    IF UrlHolds(resp, domain) THEN "url"
    ELSE IF BoundedOccurrences(resp, name) # {} THEN "exact"
    ELSE IF Occurs(resp, name) THEN "partial"
    ELSE IF Occurs(resp, domain) THEN "domain"
    ELSE "none"

\* the competitors' names whose name or domain occurs, in configured order
ExpectedCompetitors(resp, comps) ==
    LET hit(c) == Occurs(resp, c.name) \/ Occurs(resp, c.domain)
        sel    == SelectSeq(comps, hit)
    IN  [i \in 1..Len(sel) |-> sel[i].name]

NoMatchVerdict(r) ==
    /\ r.cited = FALSE
    /\ r.citationType = NULL
    /\ r.sentiment = NULL
    /\ r.position = NoPosition
    /\ r.confidence = 0

\* C1: the four layers are tried in the order URL, exact name, partial name,
\* bare domain, and the verdict is that of the first layer that matches:
\* url-link/1.0, then 0.9, then direct-mention/0.7, then direct-mention/0.5.
C1_LayerOrder ==
    HasReturned =>
        LET layer == LayerOf(response, brandName, brandDomain) IN
        /\ layer = "url" =>
              result.citationType = "url-link" /\ result.confidence = 10
        /\ layer = "exact" => result.confidence = 9
        /\ layer = "partial" =>
              result.citationType = "direct-mention" /\ result.confidence = 7
        /\ layer = "domain" =>
              result.citationType = "direct-mention" /\ result.confidence = 5

\* a word-bounded name stands before a URL that holds the domain, and the URL wins
C1_Witness ==
    /\ HasReturned
    /\ brandDomain # <<>>
    /\ UrlHolds(response, brandDomain)
    /\ \E i \in BoundedOccurrences(response, brandName) :
           i < IndexOf(ToLower(response), HttpsScheme)
    /\ result.citationType = "url-link"
    /\ result.confidence = 10

C3_NoMatch ==
    HasReturned =>
        /\ ~result.cited <=>
              /\ ~UrlHolds(response, brandDomain)
              /\ ~Occurs(response, brandName)
              /\ ~Occurs(response, brandDomain)
        /\ ~result.cited =>
              /\ NoMatchVerdict(result)
              /\ result.competitorsMentioned =
                     ExpectedCompetitors(response, competitors)

\* no layer fired and a competitor was still reported
C3_Witness ==
    /\ HasReturned
    /\ ~result.cited
    /\ result.competitorsMentioned # <<>>

\* C4: with the empty string as brand domain, a response without the brand
\* name gets the no-match verdict, and the call does not raise.
C4_EmptyDomainIsNoMatch ==
    (pc # "call" /\ brandDomain = <<>> /\ ~Occurs(response, brandName)) =>
        HasReturned /\ NoMatchVerdict(result)

\* C5: an empty response gets cited = false, confidence 0 and null type,
\* sentiment and position, whatever the brand, and the call does not raise.
C5_EmptyResponseIsNoMatch ==
    (pc # "call" /\ response = <<>>) =>
        HasReturned /\ NoMatchVerdict(result)

\* the list lines of the response: the contents the numbered-list pattern captures
ListContents(resp) ==
    {ListItemAt(resp, s).content :
        s \in {q \in 1..Len(resp) : AtLineStart(resp, q) /\ ListItemAt(resp, q).ok}}

\* C6: no call raises, also for names and domains with regex metacharacters,
\* and these characters stand for themselves: the exact layer fires only on
\* the name as written, a citation needs the name or the domain as written,
\* and a position needs a list line holding the name or the domain as written.
C6_MetacharactersLiteral ==
    /\ pc # "threw"
    /\ HasReturned =>
          /\ result.confidence = 9 =>
                BoundedOccurrences(response, brandName) # {}
          /\ result.cited =>
                Occurs(response, brandName) \/ Occurs(response, brandDomain)
          /\ result.position # NoPosition =>
                \E line \in ListContents(response) :
                    Occurs(line, brandName) \/ Occurs(line, brandDomain)

\* a name holding metacharacters was matched by the exact layer
C6_Witness ==
    /\ HasReturned
    /\ \E k \in 1..Len(brandName) : brandName[k] \in RegexMeta
    /\ result.confidence = 9

\* C7: a name that occurs only inside a larger token, with no URL holding
\* the domain, is a direct-mention of confidence 0.7, not 0.9.
C7_EmbeddedNameIsPartial ==
    (/\ HasReturned
     /\ Occurs(response, brandName)
     /\ BoundedOccurrences(response, brandName) = {}
     /\ ~UrlHolds(response, brandDomain)) =>
        /\ result.cited
        /\ result.citationType = "direct-mention"
        /\ result.confidence = 7

\* brand Go in the response Google
C7_Witness ==
    /\ HasReturned
    /\ response = TxtGoogle
    /\ brandName = TxtGo
    /\ result.confidence = 7

\* does keyword occur inside the characters [from, to) of the lowercased text
OccursWithin(lowText, keyword, from, to) ==
    \E j \in Max(0, from)..Min(Len(lowText), to) - Len(keyword) :
        OccursAt(lowText, keyword, j)

AnyWithin(lowText, keywords, from, to) ==
    \E k \in 1..Len(keywords) : OccursWithin(lowText, keywords[k], from, to)

\* the citation type the window of radius 200 around the first word-bounded
\* occurrence of the name calls for
TypeByWindow(resp, name) ==
    LET i    == LeastOf(BoundedOccurrences(resp, name))
        from == i - 200
        to   == i + Len(name) + 200
        low  == ToLower(resp)
    IN  IF AnyWithin(low, COMPARISON_KEYWORDS, from, to) THEN "comparison"
        ELSE IF AnyWithin(low, RECOMMENDATION_KEYWORDS, from, to)
             THEN "recommendation"
             ELSE "direct-mention"

\* C8: when the exact-name layer fires the type is comparison, else
\* recommendation, else direct-mention, by the keywords within 200
\* characters of the first word-bounded match; text outside that window
\* does not count, and no other layer yields comparison or recommendation.
C8_TypeFromWindow ==
    HasReturned =>
        LET layer == LayerOf(response, brandName, brandDomain) IN
        /\ layer = "exact" =>
              result.citationType = TypeByWindow(response, brandName)
        /\ layer # "exact" =>
              result.citationType \notin {"comparison", "recommendation"}

\* the exact layer fired on a response whose keywords lie outside the window
C8_Witness ==
    /\ HasReturned
    /\ result.confidence = 9
    /\ Occurs(response, TxtTry)
    /\ result.citationType = "direct-mention"

\* the keywords of a table that occur in the window of detectSentiment
KeywordsInWindow(text, mIndex, mLength, keywords) ==
    LET low == ToLower(text)
    IN  {k \in 1..Len(keywords) :
            OccursWithin(low, keywords[k], mIndex - 120, mIndex + mLength + 120)}

PositiveCount == Cardinality(KeywordsInWindow(response, matchIndex, matchLength,
                                              POSITIVE_KEYWORDS))
NegativeCount == Cardinality(KeywordsInWindow(response, matchIndex, matchLength,
                                              NEGATIVE_KEYWORDS))

\* C9: the sentiment is positive iff the positive count exceeds the negative
\* count, negative iff the negative count exceeds the positive count, and
\* neutral iff the two are equal; a tie is never positive or negative.
C9_SentimentByComparison ==
    HasReturned =>
        LET positive == PositiveCount
            negative == NegativeCount
        IN  /\ result = "positive" <=> positive > negative
            /\ result = "negative" <=> negative > positive
            /\ result = "neutral" <=> positive = negative

\* a tie with keywords of both sets in the window
C9_Witness ==
    /\ HasReturned
    /\ result = "neutral"
    /\ LET positive == PositiveCount
       IN  positive > 0 /\ positive = NegativeCount

\* the occurrences of the keywords of a table in the window of detectSentiment
OccurrencesInWindow(text, mIndex, mLength, keywords) ==
    LET low  == ToLower(text)
        from == Max(0, mIndex - 120)
        to   == Min(Len(text), mIndex + mLength + 120)
    IN  {<<k, j>> \in (1..Len(keywords)) \X (from..to) :
            j + Len(keywords[k]) <= to /\ OccursAt(low, keywords[k], j)}

PositiveOccurrences ==
    Cardinality(OccurrencesInWindow(response, matchIndex, matchLength,
                                    POSITIVE_KEYWORDS))
NegativeOccurrences ==
    Cardinality(OccurrencesInWindow(response, matchIndex, matchLength,
                                    NEGATIVE_KEYWORDS))

\* C10 as stated: the counts compared are numbers of occurrences, a keyword
\* counting each time it appears in the window.
C10_CountsEveryOccurrence ==
    HasReturned =>
        LET positive == PositiveOccurrences
            negative == NegativeOccurrences
        IN  result = IF positive > negative THEN "positive"
                     ELSE IF negative > positive THEN "negative"
                     ELSE "neutral"

\* C10 as amended: the counts compared are the numbers of distinct keywords of
\* each table that occur in the window; a keyword that appears several times
\* counts once.
C10_CountsDistinctKeywords ==
    HasReturned =>
        LET distinctPositive == PositiveCount
            distinctNegative == NegativeCount
        IN  result = CASE distinctPositive > distinctNegative -> "positive"
                       [] distinctPositive < distinctNegative -> "negative"
                       [] OTHER -> "neutral"

\* one positive keyword three times against two negative keywords once each
C10_Witness ==
    /\ HasReturned
    /\ result = "negative"
    /\ response = Concat(<<TxtBest, TxtBest, TxtBest, TxtAvoid, TxtPoor>>)
    /\ PositiveOccurrences = 3
    /\ NegativeOccurrences = 2

\* the 1-based positions at which a line of resp starts
LineStarts(resp) ==
    {s \in 1..Len(resp) : s = 1 \/ resp[s - 1] \in {"\n", "\r"}}

\* the line of resp that starts at s, without its line break
LineAt(resp, s) ==
    LET breaks == {j \in s..Len(resp) : resp[j] \in {"\n", "\r"}}
    IN  SubSeq(resp, s, IF breaks = {} THEN Len(resp) ELSE LeastOf(breaks) - 1)

\* a numbered-list line read on its own: blanks, one or two digits, one of
\* . ) : - and whitespace; rest is what follows the marker on that line
NumberedLine(line) ==
    LET lead   == {j \in 1..Len(line) : line[j] \notin {" ", "\t"}}
        d      == IF lead = {} THEN Len(line) + 1 ELSE LeastOf(lead)
        isDigit(j) == j <= Len(line) /\ line[j] \in DigitSet
        nd     == IF isDigit(d) /\ isDigit(d + 1) THEN 2 ELSE 1
        sep    == d + nd
        ok     == /\ isDigit(d)
                  /\ sep + 1 <= Len(line)
                  /\ line[sep] \in {".", ")", ":", "-"}
                  /\ line[sep + 1] \in {" ", "\t"}
    IN  [ok     |-> ok,
         marker |-> IF ~ok THEN 0
                    ELSE IF nd = 2
                    THEN 10 * DigitValue(line[d]) + DigitValue(line[d + 1])
                    ELSE DigitValue(line[d]),
         rest   |-> IF ok THEN SubSeq(line, sep + 1, Len(line)) ELSE <<>>]

\* the starts of the numbered-list lines whose own content holds the brand
\* name or the brand domain
QualifyingLines(resp, name, domain) ==
    {s \in LineStarts(resp) :
        LET item == NumberedLine(LineAt(resp, s))
        IN  item.ok /\ (Occurs(item.rest, name) \/ Occurs(item.rest, domain))}

\* the marker of the first qualifying line, none when no line qualifies
ExpectedPosition(resp, name, domain) ==
    LET lines == QualifyingLines(resp, name, domain)
    IN  IF lines = {} THEN NoPosition
        ELSE NumberedLine(LineAt(resp, LeastOf(lines))).marker

\* C11: when a layer fires, position is the marker of the first numbered-list
\* line whose content after the marker holds the brand name or domain, and it
\* is null when no numbered line holds them.
C11_FirstQualifyingLine ==
    (HasReturned /\ result.cited) =>
        result.position = ExpectedPosition(response, brandName, brandDomain)

\* C12: a position that is not null is a 1-based rank, at least 1.
C12_PositionAtLeastOne ==
    (HasReturned /\ result.position # NoPosition) => result.position >= 1

\* the elements of seq at the indices of keep, in the order of seq
RECURSIVE Restrict(_, _, _)
Restrict(seq, keep, i) ==
    IF i > Len(seq) THEN <<>>
    ELSE (IF i \in keep THEN <<seq[i]>> ELSE <<>>) \o Restrict(seq, keep, i + 1)

IsSubsequence(sub, seq) ==
    \E keep \in SUBSET (1..Len(seq)) : Restrict(seq, keep, 1) = sub

ConfiguredNames == [i \in 1..Len(competitors) |-> competitors[i].name]

\* C13: competitorsMentioned is an order-preserving subsequence of the
\* configured competitor names, whatever the order of mention in the response.
C13_ConfiguredOrder ==
    HasReturned => IsSubsequence(result.competitorsMentioned, ConfiguredNames)

\* competitors Alpha, Beta, Gamma, Beta mentioned before Alpha: Alpha is
\* listed before Beta
C13_Witness ==
    /\ HasReturned
    /\ competitors = <<CompAlpha, CompBeta, CompGamma>>
    /\ response = TxtBetaUp \o TxtAlpha
    /\ SubSeq(result.competitorsMentioned, 1, 2) = <<TxtAlpha, TxtBeta>>

\* a string that is present in the response text: an empty string is not
PresentIn(resp, s) == s # <<>> /\ Occurs(resp, s)

Mentioned(cname) ==
    \E k \in 1..Len(result.competitorsMentioned) :
        result.competitorsMentioned[k] = cname

\* C14: a competitor's name is in competitorsMentioned iff its name or its
\* domain is present in the response, also for a record with an empty domain.
C14_MentionedIffPresent ==
    HasReturned =>
        \A i \in 1..Len(competitors) :
            Mentioned(competitors[i].name)
                <=> (\/ PresentIn(response, competitors[i].name)
                     \/ PresentIn(response, competitors[i].domain))

TimesIn(seq, x) == Cardinality({k \in 1..Len(seq) : seq[k] = x})

\* C15 as stated: competitorsMentioned never holds the same name twice and
\* never has more entries than the configured list.
C15_NoDuplicates ==
    HasReturned =>
        /\ \A j, k \in 1..Len(result.competitorsMentioned) :
               j # k => result.competitorsMentioned[j] # result.competitorsMentioned[k]
        /\ Len(result.competitorsMentioned) <= Len(competitors)

\* C15 as the code has it: no more entries than the configured list, and a
\* name as many times at most as the configured list holds it.
C15_NoMoreThanConfigured ==
    HasReturned =>
        /\ Len(result.competitorsMentioned) <= Len(competitors)
        /\ \A i \in 1..Len(competitors) :
               TimesIn(result.competitorsMentioned, competitors[i].name)
                   <= TimesIn(ConfiguredNames, competitors[i].name)

\* a list that configures Alpha twice, a response that mentions Alpha
C15_Witness ==
    /\ HasReturned
    /\ competitors = <<CompAlpha, CompAlpha>>
    /\ response = TxtAlpha
    /\ result.competitorsMentioned = <<TxtAlpha, TxtAlpha>>

\* an earlier call of the caller had the arguments of the present call
SameCallBefore(k) == calls[k].args = args

\* C16: two calls of detectCitation with identical arguments return identical
\* values whatever calls of detectCitation or buildProbePrompt ran between
\* them, and a call leaves its arguments as they were.
C16_Pure ==
    /\ [](fn = "detectCitation" /\ pc # "call" =>
             \A k \in 1..Len(calls) :
                 SameCallBefore(k) =>
                     calls[k].pc = pc /\ calls[k].result = result)
    /\ [][pc = "call" => args' = args]_vars

\* a call repeated after a call that left a lastIndex, with another call
\* between the two
C16_Witness ==
    /\ fn = "detectCitation"
    /\ pc = "returned"
    /\ Len(calls) = 2
    /\ SameCallBefore(1)
    /\ ~SameCallBefore(2)
    /\ lastIndex > 0
    /\ result.position = 2

KnownCategories == DOMAIN STANDARD_TEMPLATES \cup DOMAIN VALIDATION_TEMPLATES

PromptDone == fn = "buildProbePrompt" /\ pc # "call"

\* C17: for a category that is not one of the sixteen, buildProbePrompt never
\* throws and returns 'Tell me about <query>. What are the best options and
\* what would you recommend?', with or without variables.
C17_UnknownCategoryFallsBack ==
    (PromptDone /\ category \notin KnownCategories) =>
        /\ pc = "returned"
        /\ Flat(result) =
               "Tell me about " \o Flat(query)
                   \o ". What are the best options and what would you recommend?"

PlaceholderNames ==
    {"query", "option1", "option2", "problem", "category", "audience",
     "subject", "requirement"}

\* the value a placeholder is to receive: its value among {query, ...variables}
\* when that is not empty, the primary query otherwise
ValueFor(name, q, vs) ==
    LET merged == << [key |-> "query", value |-> q] >> \o vs.entries
        own    == {k \in 1..Len(merged) : merged[k].key = name}
        last   == CHOOSE k \in own : \A k2 \in own : k2 <= k
    IN  IF own = {} \/ merged[last].value = <<>> THEN q ELSE merged[last].value

\* the template from its piece i on, each placeholder replaced by its value
\* and nothing else changed
RECURSIVE Filled(_, _, _, _)
Filled(template, i, q, vs) ==
    IF i > Len(template) THEN <<>>
    ELSE IF template[i] = "{"
    THEN ValueFor(template[i + 1], q, vs) \o Filled(template, i + 3, q, vs)
    ELSE <<template[i]>> \o Filled(template, i + 1, q, vs)

SimpleMode == ~variables.given \/ variables.entries = <<>>

\* C18: without variables, or with an empty variables object, each of the six
\* standard categories gives its template with {query} replaced by query and
\* nothing else changed.
C18_SimpleModeReplacesQuery ==
    (PromptDone /\ SimpleMode /\ category \in DOMAIN STANDARD_TEMPLATES) =>
        /\ pc = "returned"
        /\ Flat(result) =
               Flat(Filled(STANDARD_TEMPLATES[category], 1, query, NoVariables))

\* a placeholder token {name} of the templates stands in the text
HasPlaceholder(text) ==
    \E i, j \in 1..Len(text) :
        /\ i < j
        /\ text[i] = "{"
        /\ text[j] = "}"
        /\ Flat(SubSeq(text, i + 1, j - 1)) \in PlaceholderNames

\* C19: with a non-empty variables map, every placeholder with a non-empty
\* merged value is replaced by that value and every other one by query, so
\* that no placeholder token is left, for each of the sixteen categories.
C19_NoPlaceholderLeft ==
    (PromptDone /\ ~SimpleMode /\ category \in KnownCategories) =>
        /\ pc = "returned"
        /\ Flat(result) =
               Flat(Filled(ALL_TEMPLATES[category], 1, query, variables))
        /\ ~HasPlaceholder(result)

\* the placeholders of the template that received no value
Unfilled(template, vs) ==
    {i \in 1..Len(template) :
        /\ template[i] = "{"
        /\ \A k \in 1..Len(vs.entries) :
               vs.entries[k].key = template[i + 1] => vs.entries[k].value = <<>>}

\* C20: for every known category, with or without variables, the call does
\* not fail and each placeholder that received no value is replaced by the
\* primary query: none reaches the caller.
C20_UnfilledBecomesQuery ==
    (/\ PromptDone
     /\ category \in KnownCategories
     /\ Unfilled(ALL_TEMPLATES[category], variables) # {}) =>
        /\ pc = "returned"
        /\ ~HasPlaceholder(result)
        /\ Flat(result) =
               Flat(Filled(ALL_TEMPLATES[category], 1, query, variables))

\* the categories of the probes for n competitors, in the order claimed
ExpectedProbeCategories(n) ==
    <<"best-of", "top-list">>
    \o [k \in 1..(2 * Min(n, 3)) |->
           IF k % 2 = 1 THEN "difference" ELSE "when-to-use"]
    \o <<"company-solve", "use-case", "use-case", "use-case", "use-case",
         "beginner", "budget", "enterprise", "pros-cons">>

ValueOfKey(vs, key) ==
    LET own == {k \in 1..Len(vs.entries) : vs.entries[k].key = key}
    IN  vs.entries[CHOOSE k \in own : TRUE].value

\* C21: generateValidationProbes returns 11 + 2*min(|competitors|, 3) probes,
\* in the fixed order of categories, the competitor pairs for the first three
\* competitors in input order, the use-case probes for startups, small
\* businesses, enterprise companies, freelancers in that order.
C21_ProbeCatalogue ==
    (fn = "generateValidationProbes" /\ pc # "call") =>
        LET n == Min(Len(competitors), 3) IN
        /\ pc = "returned"
        /\ Len(result) = 11 + 2 * n
        /\ [k \in 1..Len(result) |-> result[k].category]
               = ExpectedProbeCategories(Len(competitors))
        /\ \A i \in 1..n :
               /\ ValueOfKey(result[2 * i + 1].variables, "option2") = competitors[i]
               /\ ValueOfKey(result[2 * i + 2].variables, "option2") = competitors[i]
        /\ [k \in 1..4 |->
               Flat(ValueOfKey(result[2 * n + 3 + k].variables, "audience"))]
               = <<"startups", "small businesses", "enterprise companies",
                   "freelancers">>

\* four competitors are configured: the fourth is ignored, 17 probes
C21_Witness ==
    /\ fn = "generateValidationProbes"
    /\ pc = "returned"
    /\ Len(competitors) = 4
    /\ Len(result) = 17
    /\ result[17].category = "pros-cons"

\* C22: when every request to a provider comes after a canMakeRequest call
\* for it that returned true and is followed by one recordUsage, the
\* requests recorded for the provider in one minute window never exceed 60,
\* however the check and record steps of concurrent callers interleave.
C22_RequestsWithinLimit ==
    \A provider \in DOMAIN minuteWindows :
        minuteWindows[provider].requests <= 60

\* a getCached call of the caller has returned
GotCached(c) == proc[c].op = "getCached" /\ proc[c].at = "returned"

\* the life of an entry as the documentation gives it: 24 hours for a
\* probe, 7 days for content
DocumentedLife(type) ==
    IF type = "probe" THEN 24 * 3600000 ELSE 7 * 24 * 3600000

\* the table holds the entry
Stored(entry) ==
    \E key \in DOMAIN cacheEntry : cacheEntry[key] = entry

C24_MarkerAndBrandOnOneLine ==
    (HasReturned /\ result.cited /\ result.position # NoPosition) =>
        \E s \in QualifyingLines(response, brandName, brandDomain) :
            NumberedLine(LineAt(response, s)).marker = result.position

\* the first match of the layer that fires: the first word-bounded name, the
\* first name as plain text, or the first domain as plain text (0-based
\* start, length)
FirstMatch(resp, name, domain) ==
    LET layer == LayerOf(resp, name, domain)
        low   == ToLower(resp)
    IN  CASE layer = "exact" ->
                 [start  |-> LeastOf(BoundedOccurrences(resp, name)),
                  length |-> Len(name)]
          [] layer = "partial" ->
                 [start  |-> LeastOf({i \in 0..Len(resp) :
                                         OccursAt(low, ToLower(name), i)}),
                  length |-> Len(name)]
          [] OTHER ->
                 [start  |-> LeastOf({i \in 0..Len(resp) :
                                         OccursAt(low, ToLower(domain), i)}),
                  length |-> Len(domain)]

\* the text from 120 characters before the start of the match to 120
\* characters after its end
WindowAround(resp, match) ==
    SubSeq(resp, Max(1, match.start + 1 - 120),
           Min(Len(resp), match.start + match.length + 120))

\* how many keywords of a table a text holds
KeywordsHeld(text, keywords) ==
    LET low == ToLower(text)
    IN  Cardinality({k \in 1..Len(keywords) :
                        \E i \in 0..Len(low) : OccursAt(low, keywords[k], i)})

\* the sentiment a window gives, a function of the text of the window alone
SentimentOfWindow(window) ==
    LET positive == KeywordsHeld(window, POSITIVE_KEYWORDS)
        negative == KeywordsHeld(window, NEGATIVE_KEYWORDS)
    IN  CASE positive > negative -> "positive"
          [] negative > positive -> "negative"
          [] OTHER -> "neutral"

\* C25: the sentiment of a verdict depends only on the text within 120
\* characters before the start and after the end of the first match of the
\* layer that fired: it is the value one function gives for that window, so
\* two responses with the same window get the same sentiment whatever
\* keywords lie outside the window.
C25_SentimentOfWindowOnly ==
    (HasReturned /\ result.cited) =>
        result.sentiment =
            SentimentOfWindow(
                WindowAround(response,
                             FirstMatch(response, brandName, brandDomain)))

\* a positive keyword lies outside the window of the match, and the
\* verdict is neutral
C25_Witness ==
    /\ HasReturned
    /\ result.cited
    /\ result.sentiment = "neutral"
    /\ Occurs(response, TxtBest)
    /\ ~Occurs(WindowAround(response,
                            FirstMatch(response, brandName, brandDomain)),
               TxtBest)

\* what is recorded for a provider in its current minute window and in its
\* current day: a window ends 60,000 ms after its start, a day 86,400,000
\* ms after its start, and what was recorded in one that has ended counts
\* no more
CurrentRequests(provider) ==
    IF /\ provider \in DOMAIN minuteWindows
       /\ now < minuteWindows[provider].windowStart + 60000
    THEN minuteWindows[provider].requests ELSE 0

CurrentTokens(provider) ==
    IF /\ provider \in DOMAIN minuteWindows
       /\ now < minuteWindows[provider].windowStart + 60000
    THEN minuteWindows[provider].tokens ELSE 0

CurrentCost(provider) ==
    IF /\ provider \in DOMAIN dailyUsage
       /\ now < dailyUsage[provider].dayStart + 86400000
    THEN dailyUsage[provider].cost ELSE 0

\* the daily cap of 5 dollars, in cents
OverLimit(provider) ==
    \/ CurrentRequests(provider) >= 60
    \/ CurrentTokens(provider) >= 100000
    \/ CurrentCost(provider) >= 500

HandlerReturned(h) == proc[h].at = "returned"

\* the statuses a run may have had: created as running, moved once at most
RunMovedOnceAtMost(run) ==
    run \in {<<"running">>, <<"running", "completed">>, <<"running", "failed">>}

\* the handler logged that its update of the run to failed raised
UpdateRaised(h) ==
    \E k \in 1..Len(proc[h].logged) :
        proc[h].logged[k] = <<"Failed to update run status">>

\* C27: every CitationRun created by POST /api/citations/probe is created
\* with status running and, when the handler has returned, has been moved
\* exactly once, to completed with a 201 response or to failed with a 500
\* response; no run is left running after the return, and no run changes
\* status after it has reached completed or failed.
C27_RunCompletedOrFailedAtReturn ==
    /\ \A id \in 1..Len(citationRun) : RunMovedOnceAtMost(citationRun[id])
    /\ \A h \in DOMAIN proc :
           (HandlerReturned(h) /\ proc[h].runId # 0) =>
               \/ /\ proc[h].status = 201
                  /\ citationRun[proc[h].runId] = <<"running", "completed">>
               \/ /\ proc[h].status = 500
                  /\ citationRun[proc[h].runId] = <<"running", "failed">>

\* C27 as the handler has it: a run is created as running and moved once at
\* most; after a 201 response it is completed; after a 500 response it is
\* failed, unless the update to failed itself raised, which the handler logs
\* and drops, and then the run is left running; no run changes status after
\* it has reached completed or failed.
C27_RunLeftRunningOnlyWhenUpdateRaised ==
    /\ \A id \in 1..Len(citationRun) : RunMovedOnceAtMost(citationRun[id])
    /\ \A h \in DOMAIN proc :
           (HandlerReturned(h) /\ proc[h].runId # 0) =>
               \/ /\ proc[h].status = 201
                  /\ citationRun[proc[h].runId] = <<"running", "completed">>
               \/ /\ proc[h].status = 500
                  /\ ~UpdateRaised(h)
                  /\ citationRun[proc[h].runId] = <<"running", "failed">>
               \/ /\ proc[h].status = 500
                  /\ UpdateRaised(h)
                  /\ citationRun[proc[h].runId] = <<"running">>

\* a run with a stored result was moved to failed, and the response was 500
C27_Witness ==
    \E h \in DOMAIN proc :
        /\ HandlerReturned(h)
        /\ proc[h].runId # 0
        /\ proc[h].status = 500
        /\ citationRun[proc[h].runId] = <<"running", "failed">>
        /\ citationResult # <<>>

\* the rows of citationResult of the run of a handler, in order of creation
RowsOf(h) ==
    LET ofRun(row) == row.runId = proc[h].runId
    IN  SelectSeq(citationResult, ofRun)

\* queryLLM raised for the i-th provider of the request
QueryRaised(h, i) ==
    \E k \in 1..Len(proc[h].logged) :
        proc[h].logged[k] = <<"Provider failed", i, "queryLLM">>

\* a call to the database raised after the run was created
DatabaseRaised(h) ==
    \E k \in 1..Len(proc[h].logged) :
        \/ proc[h].logged[k] = <<"Failed to run probe">>
        \/ \E i \in 1..Len(proc[h].providers) :
               proc[h].logged[k] = <<"Provider failed", i, "database">>

\* C28: a failure of queryLLM for a provider does not abort the run: when
\* nothing but queryLLM has failed, the handler stores exactly one
\* CitationResult for each requested provider, in request order, the one of
\* a provider whose queryLLM failed with cited = false, confidence 0 and
\* model 'unknown', and ends the run with status completed.
C28_ProviderFailureDoesNotAbort ==
    \A h \in DOMAIN proc :
        (HandlerReturned(h) /\ proc[h].runId # 0 /\ ~DatabaseRaised(h)) =>
            LET rows == RowsOf(h) IN
            /\ proc[h].status = 201
            /\ citationRun[proc[h].runId] = <<"running", "completed">>
            /\ Len(rows) = Len(proc[h].providers)
            /\ \A i \in 1..Len(rows) :
                   /\ rows[i].provider = proc[h].providers[i]
                   /\ QueryRaised(h, i) =>
                          /\ rows[i].cited = FALSE
                          /\ rows[i].confidence = 0
                          /\ rows[i].model = "unknown"

\* queryLLM failed for the first of two providers, and the second one got
\* its result with the model that answered
C28_Witness ==
    \E h \in DOMAIN proc :
        /\ HandlerReturned(h)
        /\ proc[h].status = 201
        /\ Len(proc[h].providers) = 2
        /\ QueryRaised(h, 1)
        /\ ~QueryRaised(h, 2)
        /\ Len(RowsOf(h)) = 2
        /\ RowsOf(h)[1].model = "unknown"
        /\ RowsOf(h)[2].model = "gpt-4o-mini"
        /\ RowsOf(h)[2].cited

\* C29: in every CitationAnalysis the fields agree: cited is true iff
\* citationType is not null iff sentiment is not null iff the confidence is
\* above 0; when the URL layer fires the sentiment is positive, neutral or
\* negative, never null; and position is not null only when cited is true.
C29_FieldsAgree ==
    HasReturned =>
        /\ result.cited <=> result.citationType # NULL
        /\ result.cited <=> result.sentiment # NULL
        /\ result.cited <=> result.confidence > 0
        /\ result.citationType = "url-link" =>
               result.sentiment \in {"positive", "neutral", "negative"}
        /\ result.position # NoPosition => result.cited

\* the URL layer fired on a URL that does not start with the domain, and
\* the verdict has a sentiment
C29_Witness ==
    /\ HasReturned
    /\ result.citationType = "url-link"
    /\ result.sentiment = "neutral"
    /\ ~Occurs(response, TxtScheme \o brandDomain)

\* C30: a value written by setCache is returned by every getCached that
\* starts after the write has completed and tests the entry before the TTL
\* of the write has elapsed, when no later setCache has written the key,
\* however concurrent getCached and clearExpiredCache calls interleave; the
\* cleanup of an expired entry never removes a fresh entry written for the
\* same key meanwhile.
C30_FreshValueReturned ==
    \A c \in DOMAIN proc :
        (/\ GotCached(c)
         /\ proc[c].writes > 0
         /\ proc[c].date <= calls[proc[c].writes].expiresAt) =>
            proc[c].value = calls[proc[c].writes].value

====
